---- MODULE Spec2Model ----
(***************************************************************************)
(* A model of one game room of the skribblr backend (package game).        *)
(*                                                                         *)
(* The room's fields are the variables below.  Every goroutine is a task:  *)
(* one per player connection (HandleWebSocket/AddPlayer, then the          *)
(* handleMessages loop, then removePlayer), one per phase timer, and the   *)
(* goroutines started with `go`.  A task is a sequence of steps; a step is *)
(* one critical section of room.Mu together with the lock-free code that   *)
(* follows it up to the next acquisition of room.Mu.  sync.RWMutex is not  *)
(* reentrant: a task that calls Lock while it holds the lock waits for     *)
(* itself.  A goroutine started with `go` that panics ends the process     *)
(* (nothing in the repository recovers); a panic below net/http's handler  *)
(* is recovered by net/http and leaves the room lock as it was.            *)
(*                                                                         *)
(* Time is abstract: a running timer context may reach its deadline at any *)
(* step.  Writes to an open connection succeed; writes to a connection     *)
(* that was closed fail.                                                   *)
(***************************************************************************)
EXTENDS Integers, Sequences, FiniteSets, Bags, TLC

\* ------------------------------------------------------------------ bounds
NumPlayers == 2        \* player ids that may ever connect to the room
MaxTimers == 2         \* timer goroutines waiting on a context at once
MaxTasks == 1          \* goroutines started with `go` and not yet finished
MaxLeaves == 1         \* connections that may be lost
MaxStartMsgs == 1      \* "start_game" messages the clients send
MaxTalkers == 4        \* players of a full room that send player_ready
MaxPosition == 5       \* ranks of a correct guess that are evaluated
MaxWordLen == 4        \* bytes of a word given to GetMaskedWord
MaxCanvas == 2         \* entries of a canvas before the drawer's two messages
MaxContexts == 3       \* phase timers started one after the other
MaxLockers == 2        \* tasks that take the locks of the package at once

\* ------------------------------------------------------- program constants
MinPlayersToStart == 2
MaxPlayersPerRoom == 8
MaxRounds == 3
CanvasWidth == 35
CanvasHeight == 20

PlayerIds == 1..NumPlayers
NoPlayer == 0          \* a nil *Player
NilTimer == -1         \* room.Timer == nil
NoCtx == 0             \* the GameTimer getOrCreateRoom builds: no context
HasCtx == 1            \* a GameTimer StartPhaseTimer built

PhaseLobby == "lobby"
PhaseWaiting == "waiting"
PhaseDrawing == "drawing"
PhaseRevealing == "revealing"
PhaseEnded == "ending"

\* The word corpus, abstracted to one word per difficulty bucket.
Corpus == {"cat", "bicycle", "algorithm"}
\* What a client may type as a guess or a selection: a corpus word, the same
\* word with other casing and padding, or a word that is not in the corpus.
Typed == {"cat", " Cat ", "zebra"}
\* strings.ToLower(strings.TrimSpace(s)) on the strings of Typed
Normalize(s) == IF s = " Cat " THEN "cat" ELSE s

VARIABLES
    Players,          \* keys of room.Players
    playersNil,       \* room.Players == nil (after CleanupRoom)
    IsConnected,      \* Player.IsConnected, per player object
    IsReady,          \* Player.IsReady
    HasGuessed,       \* Player.HasGuessed
    CanDraw,          \* Player.CanDraw
    Phase,            \* room.Phase
    Current,          \* room.Current (a player object, possibly one no longer in Players)
    CurrentIndex,     \* room.CurrentIndex
    Word,             \* room.Word
    WordChoices,      \* room.WordChoices
    RoundNumber,      \* room.RoundNumber
    RoundStats,       \* room.RoundStats
    Timer,            \* room.Timer: [ctx, IsActive]
    PlayerOrder,      \* room.PlayerOrder
    PlayersReady,     \* room.PlayersReady (a map: a function on its keys)
    CorrectGuessers,  \* room.CorrectGuessers (player ids)
    HasGameStarted,   \* room.HasGameStarted
    CanvasState,      \* room.CanvasState
    inRegistry,       \* Rooms[room.Id] is this room
    mu,               \* room.Mu
    timers,           \* bag of the timer goroutines waiting on their context
    conn,             \* per player: the state of its connection task
    reader,           \* per player: the steps its task still has to run
    tasks,            \* bag of the goroutines started with `go`
    crashed,          \* the process ended with an unrecovered panic
    startMsgs,        \* "start_game" messages received so far
    calc,             \* a call of a pure function of the package: arguments, result
    scoreAdded,       \* per player: what the last step added to Player.Score
    out               \* message types handed to the connections by the last step

playerVars == <<Players, playersNil, IsConnected, IsReady, HasGuessed, CanDraw>>
gameVars == <<Phase, Current, CurrentIndex, Word, WordChoices, RoundNumber,
              RoundStats, PlayerOrder, PlayersReady, CorrectGuessers,
              HasGameStarted, CanvasState>>
roomVars == <<playerVars, gameVars, Timer>>
vars == <<roomVars, inRegistry, mu, timers, conn, reader, tasks, crashed,
          startMsgs, calc, scoreAdded, out>>

\* ----------------------------------------------------------------- helpers
Range(s) == {s[i] : i \in DOMAIN s}
Perms(S) == {s \in [1..Cardinality(S) -> S] : Range(s) = S}
Remove(s, x) == SelectSeq(s, LAMBDA e : e # x)

\* Nothing added to any Player.Score.
NoScore == [p \in DOMAIN conn |-> 0]

\* No pure function is being evaluated.
NoCall == [fn |-> "none"]

\* One step of a task.  op names the code, p/w/b/n are its arguments.
Step(op, p, w, b, n) == [op |-> op, p |-> p, w |-> w, b |-> b, n |-> n]
S0(op) == Step(op, NoPlayer, "", FALSE, 0)
SP(op, p) == Step(op, p, "", FALSE, 0)
SW(op, w) == Step(op, NoPlayer, w, FALSE, 0)
SPW(op, p, w) == Step(op, p, w, FALSE, 0)

\* room.Mu between two steps: "free"; "held" for writing by a task that has
\* not reached its Unlock (c: the steps that task still has to run); or
\* "leaked": locked by a task that panicked before its Unlock or RUnlock
\* ("r": a read lock, which still admits readers).
MuFree == [st |-> "free", by |-> "", c |-> <<>>]
MuHeld(fn, c) == [st |-> "held", by |-> fn, c |-> c]
MuLeaked(fn, rw) == [st |-> "leaked", by |-> fn, c |-> <<S0(rw)>>]
CanLock == ~crashed /\ mu.st = "free"
CanRLock == ~crashed /\ (mu.st = "free" \/ (mu.st = "leaked" /\ mu.c[1].op = "r"))

\* The messages and log lines a step hands out.  SafeBroadcastToRoom and
\* SafeBroadcastToRoomExcept change nothing in the room (they take the lock
\* to snapshot the players); they are no steps of their own, and `out` keeps
\* of a step's output the kinds listed in Observed.
Observed == {"canvas_cleared", "pixel_draw", "log: word already chosen",
             "drawing_phase", "game_ended", "lobby_reset", "timer_update",
             "guess_message"}
Emit(kinds) == kinds \cap Observed

\* A connection can be written while it is open.
ConnOpen(p) == conn[p] \in {"joining", "reading", "dead"}


\* A task: the connection task of player p (k = "r") or a goroutine of the
\* bag (k = "g"); c is what it still has to run.
ReaderTask(p) == [k |-> "r", p |-> p, c |-> reader[p]]
GoTask(c) == [k |-> "g", p |-> NoPlayer, c |-> c]
\* A reader that takes a message off its connection starts the handler.
Handler(p, step) == [k |-> "r", p |-> p, c |-> <<step>>]
Idle(p) == conn[p] = "reading" /\ reader[p] = <<>>
RunningTasks == {ReaderTask(p) : p \in {q \in DOMAIN reader : reader[q] # <<>>}}
                    \cup {GoTask(c) : c \in BagToSet(tasks)}
At(h, op) == h.c # <<>> /\ Head(h.c).op = op
Arg(h) == Head(h.c)
Rest(h) == Tail(h.c)
BagOf(seqOfTasks) == LET B[i \in 0..Len(seqOfTasks)] ==
                            IF i = 0 THEN EmptyBag
                            ELSE B[i - 1] (+) SetToBag({seqOfTasks[i]})
                     IN B[Len(seqOfTasks)]
\* A `go f(...)` statement is a step that takes no lock: it runs together
\* with the step before it.  The goroutine it starts runs GoBody.
GoBody(s) ==
    CASE s.w = "StartDrawingPhase" -> <<S0("StartDrawingPhase")>>
      [] s.w = "EndGame" -> <<S0("EndGame")>>
      [] OTHER -> <<SPW(s.w, s.p, "")>>
RECURSIVE LeadingGo(_)
LeadingGo(c) == IF c # <<>> /\ Head(c).op = "go" THEN 1 + LeadingGo(Tail(c)) ELSE 0
\* Task h goes on with steps c2 and has started the goroutines `spawned`.
Commit(h, c2, spawned) ==
    LET n == LeadingGo(c2)
        c3 == SubSeq(c2, n + 1, Len(c2))
        sp == BagOf(spawned) (+) BagOf([i \in 1..n |-> GoBody(c2[i])])
    IN /\ IF h.k = "r"
          THEN /\ reader' = [reader EXCEPT ![h.p] = c3]
               /\ tasks' = tasks (+) sp
          ELSE /\ reader' = reader
               /\ tasks' = ((tasks (-) SetToBag({h.c}))
                              (+) (IF c3 = <<>> THEN EmptyBag ELSE SetToBag({c3})))
                              (+) sp
       /\ BagCardinality(tasks') <= MaxTasks

\* ---------------------------------------------------------------- maps
EmptyMap == [p \in {} |-> FALSE]
MapPut(m, k, v) == [x \in DOMAIN m \cup {k} |-> IF x = k THEN v ELSE m[x]]
MapDel(m, k) == [x \in DOMAIN m \ {k} |-> m[x]]

\* --------------------------------------------------------- initial state
\* The room getOrCreateRoom builds and registers; nobody has connected.
\* A timer goroutine: its context is "running" or past its deadline
\* ("expired"); cb names its onExpire closure and p the drawer the closure
\* captured; cur: room.Timer.Context is its context.  The goroutine of a
\* context that was cancelled before its deadline takes the lock, finds
\* IsActive cleared by CancelPhaseTimer or another timer in room.Timer, and
\* returns: it changes nothing and is not kept in the bag.
TimerTask(st, cb, p, cur) == [st |-> st, cb |-> cb, p |-> p, cur |-> cur]
\* room.Timer was replaced or set to nil: no goroutine's context is current.
Replaced(B) ==
    LET old(t) == [t EXCEPT !.cur = FALSE]
    IN [t \in {old(x) : x \in BagToSet(B)} |->
           CopiesIn(t, B) + CopiesIn([t EXCEPT !.cur = TRUE], B)]
Init ==
    /\ Players = {}
    /\ playersNil = FALSE
    /\ IsConnected = [p \in PlayerIds |-> FALSE]
    /\ IsReady = [p \in PlayerIds |-> FALSE]
    /\ HasGuessed = [p \in PlayerIds |-> FALSE]
    /\ CanDraw = [p \in PlayerIds |-> FALSE]
    /\ Phase = PhaseLobby
    /\ Current = NoPlayer
    /\ CurrentIndex = 0
    /\ Word = ""
    /\ WordChoices = <<>>
    /\ RoundNumber = 1
    /\ RoundStats = <<>>
    /\ Timer = [ctx |-> NoCtx, IsActive |-> FALSE]
    /\ PlayerOrder = <<>>
    /\ PlayersReady = EmptyMap
    /\ CorrectGuessers = <<>>
    /\ HasGameStarted = FALSE
    /\ CanvasState = <<>>
    /\ inRegistry = TRUE
    /\ mu = MuFree
    /\ timers = EmptyBag
    /\ conn = [p \in PlayerIds |-> "absent"]
    /\ reader = [p \in PlayerIds |-> <<>>]
    /\ tasks = EmptyBag
    /\ crashed = FALSE
    /\ startMsgs = 0
    /\ calc = NoCall
    /\ scoreAdded = NoScore
    /\ out = {}

\* ------------------------------------------------- room methods (pure)
GetPlayerCount == Cardinality({p \in Players : IsConnected[p]})
AreAllPlayersReady == \A p \in Players : ~(IsConnected[p] /\ ~IsReady[p])
HasEveryoneGuessed ==
    \A p \in Players : ~(IsConnected[p] /\ p # Current /\ ~HasGuessed[p])
\* utils.ValidateGameState: index in range, drawer in the room and at the
\* index, no expired timer still marked active.
ValidateGameState ==
    /\ CurrentIndex >= 0 /\ CurrentIndex < Len(PlayerOrder)
    /\ Current # NoPlayer =>
          /\ Current \in Players
          /\ PlayerOrder[CurrentIndex + 1] = Current
    /\ ~(Timer.IsActive /\ \E t \in BagToSet(timers) : t.cur /\ t.st = "expired")

\* ------------------------------------------------------ the step sequences
\* StartPhaseTimer: CancelPhaseTimer, then install the timer and start its
\* goroutine.  cb names the onExpire closure, p the drawer it captured.
StartPhaseTimerSteps(cb, p) ==
    <<S0("CancelPhaseTimer"), SPW("StartPhaseTimer", p, cb)>>
\* StartWaitingPhase; n counts the steps an early return skips.
StartWaitingPhaseSteps ==
    <<Step("StartWaitingPhase", NoPlayer, "", FALSE, 2)>>
        \o StartPhaseTimerSteps("StartWordSelection", NoPlayer)
StartGameSteps == <<S0("StartGame")>> \o StartWaitingPhaseSteps
\* NextRound: utils.UpdatePlayerOrder, the critical section (n counts the
\* steps its early returns skip), and the tail.
NextRoundSteps ==
    <<S0("UpdatePlayerOrder"), Step("NextRound", NoPlayer, "", FALSE, 1),
      S0("NextRound_finish")>>
AddPlayerSteps(p) ==
    <<SP("AddPlayer", p), SP("AddPlayer_welcome", p), SP("AddPlayer_check", p)>>

\* ------------------------------------------------------------ connections
\* HandleWebSocket up to getOrCreateRoom: player p's request finds the room
\* in the registry.
Connect(p) ==
    /\ UNCHANGED <<startMsgs, calc>>
    /\ scoreAdded' = NoScore
    /\ ~crashed
    /\ conn[p] = "absent"
    /\ inRegistry
    /\ conn' = [conn EXCEPT ![p] = "joining"]
    /\ reader' = [reader EXCEPT ![p] = AddPlayerSteps(p)]
    /\ out' = {}
    /\ UNCHANGED <<roomVars, inRegistry, mu, timers, tasks, crashed>>

\* AddPlayer, first critical section.  On a room CleanupRoom has cleared,
\* the write to the nil map panics with the lock held; net/http recovers
\* the handler goroutine.
AddPlayer(h) ==
    /\ UNCHANGED <<startMsgs, calc>>
    /\ scoreAdded' = NoScore
    /\ At(h, "AddPlayer")
    /\ CanLock
    /\ LET p == Arg(h).p IN
       IF playersNil
       THEN /\ mu' = MuLeaked("AddPlayer", "w")
            /\ conn' = [conn EXCEPT ![p] = "dead"]
            /\ Commit(h, <<>>, <<>>)
            /\ UNCHANGED <<roomVars>>
       ELSE /\ Players' = Players \cup {p}
            /\ IsConnected' = [IsConnected EXCEPT ![p] = TRUE]
            /\ IsReady' = [IsReady EXCEPT ![p] = FALSE]
            /\ Commit(h, Rest(h), <<>>)
            /\ UNCHANGED <<playersNil, HasGuessed, CanDraw, gameVars, Timer,
                           mu, conn>>
    /\ out' = {}
    /\ UNCHANGED <<inRegistry, timers, crashed>>

\* ------------------------------------------------------------ GetMaskedWord
\* The bytes of the corpus words.
Chars(w) ==
    CASE w = "cat" -> <<"c", "a", "t">>
      [] w = "bicycle" -> <<"b", "i", "c", "y", "c", "l", "e">>
      [] w = "algorithm" -> <<"a", "l", "g", "o", "r", "i", "t", "h", "m">>
      [] OTHER -> <<>>
\* make([]string, 0, len(word)): a slice of length 0
MakeMasked(word) == <<>>
\* The loop body: masked[i] = ... is an index expression, it panics when i
\* is outside the length of the slice.
RECURSIVE MaskLoop(_, _, _)
MaskLoop(chars, i, masked) ==
    IF i > Len(chars) THEN [panic |-> FALSE, text |-> masked]
    ELSE IF i \notin DOMAIN masked THEN [panic |-> TRUE, text |-> masked]
    ELSE MaskLoop(chars, i + 1,
                  [masked EXCEPT ![i] = IF chars[i] = " " THEN " " ELSE "_"])
\* strings.Join(elems, " ")
RECURSIVE Join(_)
Join(elems) ==
    IF Len(elems) <= 1 THEN elems
    ELSE <<Head(elems), " ">> \o Join(Tail(elems))
\* GetMaskedWord on the bytes of its argument.
GetMaskedBytes(chars) ==
    IF chars = <<>> THEN [panic |-> FALSE, text |-> <<>>]
    ELSE LET looped == MaskLoop(chars, 1, MakeMasked(chars))
         IN IF looped.panic THEN looped
            ELSE [panic |-> FALSE, text |-> Join(looped.text)]
GetMaskedWord(word) == GetMaskedBytes(Chars(word))

\* AddPlayer, the welcome message: built under RLock from room.Timer and
\* GetMaskedWord(room.Word), then written to the joining player.  A panic
\* here unwinds the handler with the read lock held.
AddPlayer_welcome(h) ==
    /\ UNCHANGED <<startMsgs, calc>>
    /\ scoreAdded' = NoScore
    /\ At(h, "AddPlayer_welcome")
    /\ CanRLock
    /\ LET p == Arg(h).p IN
       IF Timer.ctx = NilTimer \/ GetMaskedWord(Word).panic
       THEN /\ mu' = IF mu.st = "free" THEN MuLeaked("AddPlayer", "r") ELSE mu
            /\ conn' = [conn EXCEPT ![p] = "dead"]
            /\ Commit(h, <<>>, <<>>)
            /\ out' = {}
       ELSE IF conn[p] = "joining"
       THEN /\ Commit(h, Rest(h), <<>>)
            /\ out' = Emit({"welcome_msg"})
            /\ UNCHANGED <<mu, conn>>
       ELSE \* the write fails: HandleWebSocket closes and returns
            /\ conn' = [conn EXCEPT ![p] = "rejected"]
            /\ Commit(h, <<>>, <<>>)
            /\ out' = {}
            /\ UNCHANGED mu
    /\ UNCHANGED <<roomVars, inRegistry, timers, crashed>>

\* AddPlayer, the capacity check, and HandleWebSocket's `go handleMessages`.
AddPlayer_check(h) ==
    /\ UNCHANGED <<startMsgs, calc>>
    /\ scoreAdded' = NoScore
    /\ At(h, "AddPlayer_check")
    /\ CanRLock
    /\ LET p == Arg(h).p IN
       conn' = [conn EXCEPT ![p] =
                   IF Cardinality(Players) > MaxPlayersPerRoom THEN "rejected"
                   ELSE IF conn[p] = "joining" THEN "reading" ELSE "closed"]
    /\ Commit(h, <<>>, <<>>)
    /\ out' = {}
    /\ UNCHANGED <<roomVars, inRegistry, mu, timers, crashed>>

\* -------------------------------------------------------------- the lobby
\* "player_ready".  With room.PlayersReady nil the map write panics with the
\* lock held; the deferred removePlayer of handleMessages then waits for
\* that lock.
HandlePlayerReady(p, ready) ==
    /\ UNCHANGED <<startMsgs, calc>>
    /\ scoreAdded' = NoScore
    /\ Idle(p)
    /\ CanLock
    /\ IF Phase # PhaseLobby
       THEN /\ out' = {}
            /\ UNCHANGED <<roomVars, mu, conn, reader, tasks>>
       ELSE IF playersNil
       THEN /\ mu' = MuLeaked("HandlePlayerReady", "w")
            /\ conn' = [conn EXCEPT ![p] = "stuck"]
            /\ IsReady' = [IsReady EXCEPT ![p] = ready]
            /\ out' = {}
            /\ UNCHANGED <<Players, playersNil, IsConnected, HasGuessed, CanDraw,
                           gameVars, Timer, reader, tasks>>
       ELSE /\ IsReady' = [IsReady EXCEPT ![p] = ready]
            /\ PlayersReady' = MapPut(PlayersReady, p, ready)
            /\ out' = Emit({"lobby_update"})
            /\ LET allReady == \A q \in Players : ~(IsConnected[q] /\ ~IsReady'[q])
                   enoughPlayers == Cardinality(Players) >= MinPlayersToStart
               IN Commit(Handler(p, SP("HandlePlayerReady", p)), <<>>,
                         IF allReady /\ enoughPlayers THEN <<StartGameSteps>>
                         ELSE <<>>)
            /\ UNCHANGED <<Players, playersNil, IsConnected, HasGuessed, CanDraw,
                           Phase, Current, CurrentIndex, Word, WordChoices,
                           RoundNumber, RoundStats, PlayerOrder, CorrectGuessers,
                           HasGameStarted, CanvasState, Timer, mu, conn>>
    /\ UNCHANGED <<inRegistry, timers, crashed>>

\* "start_game": go StartGame(player.Room)
StartGameMsg(p) ==
    /\ ~crashed
    /\ Idle(p)
    /\ startMsgs < MaxStartMsgs
    /\ startMsgs' = startMsgs + 1
    /\ UNCHANGED calc
    /\ scoreAdded' = NoScore
    /\ Commit(Handler(p, SP("start_game", p)), <<>>, <<StartGameSteps>>)
    /\ out' = {}
    /\ UNCHANGED <<roomVars, inRegistry, mu, timers, conn, crashed>>

\* StartGame, the critical section.  The order of room.PlayerOrder is the
\* iteration order of the PlayersReady map.
StartGame(h) ==
    /\ UNCHANGED <<startMsgs, calc>>
    /\ scoreAdded' = NoScore
    /\ At(h, "StartGame")
    /\ CanLock
    /\ IF Cardinality(Players) < MinPlayersToStart \/ ~AreAllPlayersReady
       THEN /\ Commit(h, <<>>, <<>>)
            /\ UNCHANGED <<roomVars>>
       ELSE /\ HasGameStarted' = TRUE
            /\ RoundNumber' = 1
            /\ CurrentIndex' = 0
            /\ RoundStats' = <<>>
            /\ HasGuessed' = [p \in DOMAIN HasGuessed |->
                                 IF p \in Players THEN FALSE ELSE HasGuessed[p]]
            /\ CorrectGuessers' = <<>>
            /\ PlayerOrder' \in Perms({id \in DOMAIN PlayersReady :
                                         /\ id \in Players
                                         /\ IsConnected[id]
                                         /\ PlayersReady[id]})
            /\ Commit(h, Rest(h), <<>>)
            /\ UNCHANGED <<Players, playersNil, IsConnected, IsReady, CanDraw,
                           Phase, Current, Word, WordChoices, PlayersReady,
                           CanvasState, Timer>>
    /\ out' = {}
    /\ UNCHANGED <<inRegistry, mu, timers, conn, crashed>>

\* ------------------------------------------------------------ phase timer
\* CancelPhaseTimer: nothing to do without an active timer; otherwise call
\* the context's cancel function (a context past its deadline keeps
\* DeadlineExceeded), clear IsActive, and broadcast timer_update.
CancelPhaseTimer_AlwaysBroadcasts(h) ==
    /\ UNCHANGED <<startMsgs, calc>>
    /\ scoreAdded' = NoScore
    /\ At(h, "CancelPhaseTimer")
    /\ CanLock
    /\ IF Timer.ctx = NilTimer \/ ~Timer.IsActive
       THEN /\ Commit(h, Rest(h), <<>>)
            /\ UNCHANGED <<Timer, timers>>
       ELSE /\ timers' = timers (-) SetToBag({t \in BagToSet(timers) :
                                                   t.cur /\ t.st = "running"})
            /\ Timer' = [Timer EXCEPT !.IsActive = FALSE]
            /\ Commit(h, Rest(h), <<>>)
    /\ out' = Emit({"timer_update"})
    /\ UNCHANGED <<playerVars, gameVars, inRegistry, mu, conn, crashed>>
CancelPhaseTimer(h) ==
    /\ UNCHANGED <<startMsgs, calc>>
    /\ scoreAdded' = NoScore
    /\ At(h, "CancelPhaseTimer")
    /\ CanLock
    /\ IF Timer.ctx = NilTimer \/ ~Timer.IsActive
       THEN /\ Commit(h, Rest(h), <<>>)
            /\ UNCHANGED <<Timer, timers>>
       ELSE /\ timers' = timers (-) SetToBag({t \in BagToSet(timers) :
                                                   t.cur /\ t.st = "running"})
            /\ Timer' = [Timer EXCEPT !.IsActive = FALSE]
            /\ Commit(h, Rest(h), <<>>)
    /\ out' = Emit(IF Timer.ctx = NilTimer \/ ~Timer.IsActive THEN {}
                   ELSE {"timer_update"})
    /\ UNCHANGED <<playerVars, gameVars, inRegistry, mu, conn, crashed>>

\* StartPhaseTimer after its call of CancelPhaseTimer: a new context, a new
\* GameTimer in room.Timer, and the timer goroutine.
StartPhaseTimer(h) ==
    /\ UNCHANGED <<startMsgs, calc>>
    /\ scoreAdded' = NoScore
    /\ At(h, "StartPhaseTimer")
    /\ CanLock
    /\ BagCardinality(timers) < MaxTimers
    /\ timers' = Replaced(timers)
                    (+) SetToBag({TimerTask("running", Arg(h).w, Arg(h).p, TRUE)})
    /\ Timer' = [ctx |-> HasCtx, IsActive |-> TRUE]
    /\ Commit(h, Rest(h), <<>>)
    /\ out' = {}
    /\ UNCHANGED <<playerVars, gameVars, inRegistry, mu, conn, crashed>>

\* The deadline of a running context passes.
Expire(t) ==
    /\ UNCHANGED <<startMsgs, calc>>
    /\ scoreAdded' = NoScore
    /\ ~crashed
    /\ t.st = "running"
    /\ timers' = (timers (-) SetToBag({t}))
                    (+) SetToBag({[t EXCEPT !.st = "expired"]})
    /\ out' = {}
    /\ UNCHANGED <<roomVars, inRegistry, mu, conn, reader, tasks, crashed>>

\* What onExpire runs, per closure.
OnExpire(t) ==
    IF t.cb = "AutoSelect" THEN <<SP("AutoSelect", t.p)>> ELSE <<S0(t.cb)>>
\* The timer goroutine at <-ctx.Done(): clear IsActive if room.Timer is still
\* this timer, then `go onExpire()` if ctx.Err() is DeadlineExceeded.
TimerGoroutine(t) ==
    /\ UNCHANGED <<startMsgs, calc>>
    /\ scoreAdded' = NoScore
    /\ t.st = "expired"
    /\ CanLock
    /\ LET active == Timer.ctx # NilTimer /\ t.cur IN
       Timer' = IF active THEN [Timer EXCEPT !.IsActive = FALSE] ELSE Timer
    /\ timers' = timers (-) SetToBag({t})
    /\ tasks' = tasks (+) SetToBag({OnExpire(t)})
    /\ BagCardinality(tasks') <= MaxTasks
    /\ out' = {}
    /\ UNCHANGED <<playerVars, gameVars, inRegistry, mu, conn, reader, crashed>>

\* ---------------------------------------------------------- phase machine
StartWaitingPhase(h) ==
    /\ UNCHANGED <<startMsgs, calc>>
    /\ scoreAdded' = NoScore
    /\ At(h, "StartWaitingPhase")
    /\ CanLock
    /\ Phase' = PhaseWaiting
    /\ CurrentIndex' = IF CurrentIndex >= Len(PlayerOrder) THEN 0 ELSE CurrentIndex
    /\ IF Len(PlayerOrder) = 0 \/ PlayerOrder[CurrentIndex' + 1] \notin Players
       THEN /\ Commit(h, SubSeq(Rest(h), Arg(h).n + 1, Len(Rest(h))), <<>>)
            /\ UNCHANGED <<Current, HasGuessed, CanDraw, CorrectGuessers,
                           CanvasState>>
       ELSE /\ Current' = PlayerOrder[CurrentIndex' + 1]
            /\ HasGuessed' = [p \in DOMAIN HasGuessed |->
                                 IF p \in Players THEN FALSE ELSE HasGuessed[p]]
            /\ CanDraw' = [p \in DOMAIN CanDraw |->
                              IF p \in Players THEN FALSE ELSE CanDraw[p]]
            /\ CorrectGuessers' = <<>>
            /\ CanvasState' = <<>>
            /\ Commit(h, Rest(h), <<>>)
    /\ out' = {}
    /\ UNCHANGED <<Players, playersNil, IsConnected, IsReady, Word, WordChoices,
                   RoundNumber, RoundStats, PlayerOrder, PlayersReady,
                   HasGameStarted, Timer, inRegistry, mu, timers, conn, crashed>>

\* utils.GenerateWordChoices: one word per difficulty, shuffled.  Of the
\* shuffles, those of Shuffles are explored.
Shuffles == {<<"algorithm", "bicycle", "cat">>}
GenerateWordChoices == {c \in Perms(Corpus) : c \in Shuffles}

\* StartWordSelection (the waiting timer's onExpire).  When the write to the
\* drawer fails the first choice is selected in a new goroutine.
StartWordSelection(h) ==
    /\ UNCHANGED <<startMsgs, calc>>
    /\ scoreAdded' = NoScore
    /\ At(h, "StartWordSelection")
    /\ CanLock
    /\ IF Current = NoPlayer
       THEN /\ Commit(h, <<>>, <<>>)
            /\ out' = {}
            /\ UNCHANGED WordChoices
       ELSE /\ WordChoices' \in GenerateWordChoices
            /\ IF ConnOpen(Current)
               THEN /\ out' = Emit({"word_selection", "waiting_for_word"})
                    /\ Commit(h, StartPhaseTimerSteps("AutoSelect", Current)
                                    \o Rest(h), <<>>)
               ELSE /\ out' = {}
                    /\ Commit(h, <<>>, <<<<SPW("HandleWordSelection", Current,
                                                WordChoices'[1])>>>>)
    /\ UNCHANGED <<playerVars, Phase, Current, CurrentIndex, Word, RoundNumber,
                   RoundStats, PlayerOrder, PlayersReady, CorrectGuessers,
                   HasGameStarted, CanvasState, Timer, inRegistry, mu, timers,
                   conn, crashed>>

\* The selection timer's onExpire: auto-select the first choice unless a word
\* is set or there are no choices.
AutoSelect(h) ==
    /\ UNCHANGED <<startMsgs, calc>>
    /\ scoreAdded' = NoScore
    /\ At(h, "AutoSelect")
    /\ CanLock
    /\ LET alreadyChosen == Word # ""
           choicesCopy == WordChoices
       IN IF alreadyChosen \/ Len(choicesCopy) = 0
          THEN Commit(h, <<>>, <<>>)
          ELSE Commit(h, <<>>, <<<<SPW("HandleWordSelection", Arg(h).p,
                                        choicesCopy[1])>>>>)
    /\ out' = {}
    /\ UNCHANGED <<roomVars, inRegistry, mu, timers, conn, crashed>>

\* HandleWordSelection without its "word already chosen" return.
HandleWordSelection_NoWordCheck(h) ==
    /\ UNCHANGED <<startMsgs, calc>>
    /\ scoreAdded' = NoScore
    /\ At(h, "HandleWordSelection")
    /\ CanLock
    /\ LET player == Arg(h).p
           selectedWord == Arg(h).w
       IN IF Current = NoPlayer \/ player # Current
          THEN /\ out' = Emit({"log: not current drawer"})
               /\ Commit(h, Rest(h), <<>>)
               /\ UNCHANGED <<Word, WordChoices>>
          ELSE IF selectedWord \notin Range(WordChoices)
          THEN /\ out' = Emit({"log: invalid word"})
               /\ Commit(h, Rest(h), <<>>)
               /\ UNCHANGED <<Word, WordChoices>>
          ELSE /\ Word' = selectedWord
               /\ WordChoices' = <<>>
               /\ out' = Emit({"log: selected word"})
               /\ Commit(h, <<S0("CancelPhaseTimer"),
                              SW("go", "StartDrawingPhase")>> \o Rest(h), <<>>)
    /\ UNCHANGED <<playerVars, Phase, Current, CurrentIndex, RoundNumber,
                   RoundStats, PlayerOrder, PlayersReady, CorrectGuessers,
                   HasGameStarted, CanvasState, Timer, inRegistry, mu, timers,
                   conn, crashed>>

\* HandleWordSelection, from the drawer's "word_selection" message or from
\* an auto-select goroutine.  The selection is accepted from the current
\* drawer, when no word is set, for a word of room.WordChoices.
HandleWordSelection(h) ==
    /\ UNCHANGED <<startMsgs, calc>>
    /\ scoreAdded' = NoScore
    /\ At(h, "HandleWordSelection")
    /\ CanLock
    /\ LET player == Arg(h).p
           selectedWord == Arg(h).w
       IN IF Current = NoPlayer \/ player # Current
          THEN /\ out' = Emit({"log: not current drawer"})
               /\ Commit(h, Rest(h), <<>>)
               /\ UNCHANGED <<Word, WordChoices>>
          ELSE IF Word # ""
          THEN /\ out' = Emit({"log: word already chosen"})
               /\ Commit(h, Rest(h), <<>>)
               /\ UNCHANGED <<Word, WordChoices>>
          ELSE IF selectedWord \notin Range(WordChoices)
          THEN /\ out' = Emit({"log: invalid word"})
               /\ Commit(h, Rest(h), <<>>)
               /\ UNCHANGED <<Word, WordChoices>>
          ELSE /\ Word' = selectedWord
               /\ WordChoices' = <<>>
               /\ out' = Emit({"log: selected word"})
               /\ Commit(h, <<S0("CancelPhaseTimer"),
                              SW("go", "StartDrawingPhase")>> \o Rest(h), <<>>)
    /\ UNCHANGED <<playerVars, Phase, Current, CurrentIndex, RoundNumber,
                   RoundStats, PlayerOrder, PlayersReady, CorrectGuessers,
                   HasGameStarted, CanvasState, Timer, inRegistry, mu, timers,
                   conn, crashed>>

\* "word_selection" from player p with payload w
RecvWordSelection(p, w) ==
    /\ UNCHANGED <<startMsgs, calc>>
    /\ scoreAdded' = NoScore
    /\ Idle(p)
    /\ HandleWordSelection(Handler(p, SPW("HandleWordSelection", p, w)))

\* StartDrawingPhase, always the body of a goroutine of its own.  The
\* critical section ends with utils.GetMaskedWord(room.Word); its panic is
\* not recovered and ends the process with the writes above it done.
StartDrawingPhase(h) ==
    /\ UNCHANGED <<startMsgs, calc>>
    /\ scoreAdded' = NoScore
    /\ At(h, "StartDrawingPhase")
    /\ CanLock
    /\ IF Current = NoPlayer \/ Word = ""
       THEN /\ Commit(h, <<>>, <<>>)
            /\ UNCHANGED <<Phase, CanDraw, CorrectGuessers, HasGuessed, crashed,
                           mu>>
       ELSE /\ Phase' = PhaseDrawing
            /\ CanDraw' = [CanDraw EXCEPT ![Current] = TRUE]
            /\ CorrectGuessers' = <<>>
            /\ HasGuessed' = [p \in DOMAIN HasGuessed |->
                                 IF p \in Players THEN FALSE ELSE HasGuessed[p]]
            /\ IF GetMaskedWord(Word).panic
               THEN /\ crashed' = TRUE
                    /\ mu' = MuLeaked("StartDrawingPhase", "w")
                    /\ UNCHANGED <<reader, tasks>>
               ELSE \* the drawing timer follows
                    /\ Commit(h, StartPhaseTimerSteps("DrawingExpired", NoPlayer),
                              <<>>)
                    /\ UNCHANGED <<crashed, mu>>
    /\ out' = Emit(IF Current = NoPlayer \/ Word = "" \/ GetMaskedWord(Word).panic
                   THEN {} ELSE {"drawing_phase"})
    /\ UNCHANGED <<Players, playersNil, IsConnected, IsReady, Current,
                   CurrentIndex, Word, WordChoices, RoundNumber, RoundStats,
                   PlayerOrder, PlayersReady, HasGameStarted, CanvasState, Timer,
                   inRegistry, timers, conn>>

\* The drawing timer's onExpire, in a goroutine of its own: everyone guessed
\* leads to StartRevealingPhase, anything else to NextRound.
DrawingExpired(h) ==
    /\ UNCHANGED <<startMsgs, calc>>
    /\ scoreAdded' = NoScore
    /\ At(h, "DrawingExpired")
    /\ CanRLock
    /\ Commit(h, IF HasEveryoneGuessed THEN <<S0("StartRevealingPhase")>>
                 ELSE NextRoundSteps, <<>>)
    /\ out' = {}
    /\ UNCHANGED <<roomVars, inRegistry, mu, timers, conn, crashed>>

\* StartRevealingPhase: Lock, room.Phase = PhaseRevealing, then
\* CancelPhaseTimer, whose first statement is room.Mu.Lock().
StartRevealingPhase(h) ==
    /\ UNCHANGED <<startMsgs, calc>>
    /\ scoreAdded' = NoScore
    /\ At(h, "StartRevealingPhase")
    /\ CanLock
    /\ Phase' = PhaseRevealing
    /\ mu' = MuHeld("StartRevealingPhase", <<S0("CancelPhaseTimer")>> \o Rest(h))
    /\ Commit(h, <<S0("CancelPhaseTimer")>> \o Rest(h), <<>>)
    /\ out' = {}
    /\ UNCHANGED <<playerVars, Current, CurrentIndex, Word, WordChoices,
                   RoundNumber, RoundStats, PlayerOrder, PlayersReady,
                   CorrectGuessers, HasGameStarted, CanvasState, Timer,
                   inRegistry, timers, conn, crashed>>

\* ----------------------------------------------------------------- guesses
DifficultyEasy == "easy"
DifficultyMedium == "medium"
DifficultyHard == "hard"

\* CalculateGuessPoints, timeTaken in whole milliseconds.  t is compared with
\* 10, 30 and 60 seconds; no case of the switch takes t = 60 s or t < 0, which
\* leave speedMultiplier at its zero value.  The multipliers are kept as
\* quarters and tenths: for these operands the float32 product truncated by
\* int() is the floor of the exact product.
CalculateGuessPoints(timeTaken, position, wordDifficulty) ==
    LET basePoints == CASE wordDifficulty = DifficultyEasy -> 100
                        [] wordDifficulty = DifficultyMedium -> 150
                        [] wordDifficulty = DifficultyHard -> 200
                        [] OTHER -> 0
        speedMultiplier4 ==
            CASE timeTaken >= 0 /\ timeTaken < 10000 -> 6
              [] timeTaken >= 10000 /\ timeTaken < 30000 -> 5
              [] timeTaken >= 30000 /\ timeTaken < 60000 -> 4
              [] timeTaken > 60000 -> 3
              [] OTHER -> 0
        posMultiplier10 == CASE position = 1 -> 10
                             [] position = 2 -> 8
                             [] position = 3 -> 6
                             [] OTHER -> 4
    IN (basePoints * speedMultiplier4 * posMultiplier10) \div 40

\* time.Since(room.Timer.StartTime) at a correct guess, in milliseconds.
GuessTimes == {5000}
\* The difficulty HandleGuessEnhanced derives from len(room.Word).
Difficulty(word) ==
    IF Len(word) >= 3 /\ Len(word) <= 5 THEN DifficultyEasy
    ELSE IF Len(word) > 5 /\ Len(word) <= 8 THEN DifficultyMedium
    ELSE IF Len(word) > 8 THEN DifficultyHard
    ELSE DifficultyEasy

\* "guess_message" from player p with payload guess.  When every connected
\* non-drawer has guessed, the handler goes on with CancelPhaseTimer and
\* NextRound.
HandleGuessEnhanced(p, guess) ==
    /\ UNCHANGED <<startMsgs, calc>>
    /\ Idle(p)
    /\ CanLock
    /\ LET cleanedGuess == Normalize(guess)
           target == Normalize(Word)
       IN IF (Current # NoPlayer /\ p = Current) \/ HasGuessed[p]
          THEN /\ out' = {}
               /\ scoreAdded' = NoScore
               /\ UNCHANGED <<CorrectGuessers, HasGuessed, reader, tasks>>
          ELSE IF target = "" \/ target # cleanedGuess
          THEN /\ out' = Emit({"guess_message"})
               /\ scoreAdded' = NoScore
               /\ UNCHANGED <<CorrectGuessers, HasGuessed, reader, tasks>>
          ELSE /\ \E timeTaken \in GuessTimes :
                    LET position == Len(CorrectGuessers) + 1
                        points == CalculateGuessPoints(timeTaken, position,
                                                       Difficulty(Word))
                        scored == [NoScore EXCEPT ![p] = @ + points]
                    IN scoreAdded' = IF Current # NoPlayer
                                     THEN [scored EXCEPT ![Current] = @ + 50]
                                     ELSE scored
               /\ CorrectGuessers' = Append(CorrectGuessers, p)
               /\ HasGuessed' = [HasGuessed EXCEPT ![p] = TRUE]
               /\ out' = Emit({"guess_result"})
               /\ LET allGuessed ==
                        \A q \in Players :
                            \/ (Current # NoPlayer /\ q = Current)
                            \/ ~(IsConnected[q] /\ ~HasGuessed'[q])
                  IN IF allGuessed
                     THEN Commit(Handler(p, SP("HandleGuessEnhanced", p)),
                                 <<S0("CancelPhaseTimer")>> \o NextRoundSteps, <<>>)
                     ELSE UNCHANGED <<reader, tasks>>
    /\ UNCHANGED <<Players, playersNil, IsConnected, IsReady, CanDraw, Phase,
                   Current, CurrentIndex, Word, WordChoices, RoundNumber,
                   RoundStats, PlayerOrder, PlayersReady, HasGameStarted,
                   CanvasState, Timer, inRegistry, mu, timers, conn, crashed>>

\* utils.UpdatePlayerOrder: the order is rebuilt from the connected players
\* in map iteration order.
UpdatePlayerOrder(h) ==
    /\ UNCHANGED <<startMsgs, calc>>
    /\ scoreAdded' = NoScore
    /\ At(h, "UpdatePlayerOrder")
    /\ CanLock
    /\ PlayerOrder' \in Perms({p \in Players : IsConnected[p]})
    /\ LET idx == IF CurrentIndex >= Len(PlayerOrder') THEN 0 ELSE CurrentIndex
           lost == Current # NoPlayer /\ Current \notin Range(PlayerOrder')
       IN /\ Current' = IF lost THEN NoPlayer ELSE Current
          /\ CurrentIndex' = IF lost THEN 0 ELSE idx
    /\ Commit(h, Rest(h), <<>>)
    /\ out' = {}
    /\ UNCHANGED <<playerVars, Phase, Word, WordChoices, RoundNumber, RoundStats,
                   PlayersReady, CorrectGuessers, HasGameStarted, CanvasState,
                   Timer, inRegistry, mu, timers, conn, crashed>>

\* NextRound ending the game one round early.
NextRound_EndsEarly(h) ==
    /\ UNCHANGED <<startMsgs, calc>>
    /\ scoreAdded' = NoScore
    /\ At(h, "NextRound")
    /\ CanLock
    /\ LET after == SubSeq(Rest(h), Arg(h).n + 1, Len(Rest(h)))
           next == (CurrentIndex + 1) % Len(PlayerOrder)
           wrapped == next = 0
       IN IF Len(PlayerOrder) = 0
          THEN /\ Commit(h, <<SW("go", "EndGame")>> \o after, <<>>)
               /\ UNCHANGED <<CurrentIndex, Word, RoundNumber, Current>>
          ELSE /\ CurrentIndex' = next
               /\ Word' = ""
               /\ RoundNumber' = IF wrapped THEN RoundNumber + 1 ELSE RoundNumber
               /\ IF wrapped /\ RoundNumber' >= MaxRounds
                  THEN /\ Commit(h, <<SW("go", "EndGame")>> \o after, <<>>)
                       /\ UNCHANGED Current
                  ELSE /\ Current' = PlayerOrder[next + 1]
                       /\ Commit(h, Rest(h), <<>>)
    /\ out' = {}
    /\ UNCHANGED <<playerVars, Phase, WordChoices, RoundStats, PlayerOrder,
                   PlayersReady, CorrectGuessers, HasGameStarted, CanvasState,
                   Timer, inRegistry, mu, timers, conn, crashed>>

\* NextRound after UpdatePlayerOrder: advance the index, clear the word,
\* count the round on wrap-around, name the next drawer.
NextRound(h) ==
    /\ UNCHANGED <<startMsgs, calc>>
    /\ scoreAdded' = NoScore
    /\ At(h, "NextRound")
    /\ CanLock
    /\ LET after == SubSeq(Rest(h), Arg(h).n + 1, Len(Rest(h)))
           next == (CurrentIndex + 1) % Len(PlayerOrder)
           wrapped == next = 0
       IN IF Len(PlayerOrder) = 0
          THEN /\ Commit(h, <<SW("go", "EndGame")>> \o after, <<>>)
               /\ UNCHANGED <<CurrentIndex, Word, RoundNumber, Current>>
          ELSE /\ CurrentIndex' = next
               /\ Word' = ""
               /\ RoundNumber' = IF wrapped THEN RoundNumber + 1 ELSE RoundNumber
               /\ IF wrapped /\ RoundNumber' > MaxRounds
                  THEN /\ Commit(h, <<SW("go", "EndGame")>> \o after, <<>>)
                       /\ UNCHANGED Current
                  ELSE /\ Current' = PlayerOrder[next + 1]
                       /\ Commit(h, Rest(h), <<>>)
    /\ out' = {}
    /\ UNCHANGED <<playerVars, Phase, WordChoices, RoundStats, PlayerOrder,
                   PlayersReady, CorrectGuessers, HasGameStarted, CanvasState,
                   Timer, inRegistry, mu, timers, conn, crashed>>

\* NextRound's tail: ValidateGameState (logged only), a snapshot for the
\* log, and `go StartWaitingPhase(room)`.
NextRound_finish(h) ==
    /\ UNCHANGED <<startMsgs, calc>>
    /\ scoreAdded' = NoScore
    /\ At(h, "NextRound_finish")
    /\ CanLock
    /\ Commit(h, Rest(h), <<StartWaitingPhaseSteps>>)
    /\ out' = Emit(IF ValidateGameState THEN {} ELSE {"log: invalid game state"})
    /\ UNCHANGED <<roomVars, inRegistry, mu, timers, conn, crashed>>

\* EndGame: Lock, room.Phase = PhaseEnded, then CancelPhaseTimer, whose first
\* statement is room.Mu.Lock().
EndGame(h) ==
    /\ UNCHANGED <<startMsgs, calc>>
    /\ scoreAdded' = NoScore
    /\ At(h, "EndGame")
    /\ CanLock
    /\ Phase' = PhaseEnded
    /\ mu' = MuHeld("EndGame", <<S0("CancelPhaseTimer")>> \o Rest(h))
    /\ Commit(h, <<S0("CancelPhaseTimer")>> \o Rest(h), <<>>)
    /\ out' = {}
    /\ UNCHANGED <<playerVars, Current, CurrentIndex, Word, WordChoices,
                   RoundNumber, RoundStats, PlayerOrder, PlayersReady,
                   CorrectGuessers, HasGameStarted, CanvasState, Timer,
                   inRegistry, timers, conn, crashed>>

\* ResetRoomToLobby: Lock, then CancelPhaseTimer.
ResetRoomToLobby(h) ==
    /\ UNCHANGED <<startMsgs, calc>>
    /\ scoreAdded' = NoScore
    /\ At(h, "ResetRoomToLobby")
    /\ CanLock
    /\ mu' = MuHeld("ResetRoomToLobby", <<S0("CancelPhaseTimer")>> \o Rest(h))
    /\ Commit(h, <<S0("CancelPhaseTimer")>> \o Rest(h), <<>>)
    /\ out' = {}
    /\ UNCHANGED <<roomVars, inRegistry, timers, conn, crashed>>

\* ------------------------------------------------------------- departures
\* ReadMessage fails (the client went away, or the server closed the
\* connection): handleMessages leaves its loop; the deferred function closes
\* the connection and calls removePlayer.
CleanupRoomSteps == <<S0("CleanupRoom"), S0("CleanupRoom_clear")>>
Leavers == 1..MaxLeaves
Disconnect(p) ==
    /\ UNCHANGED <<startMsgs, calc>>
    /\ scoreAdded' = NoScore
    /\ ~crashed
    /\ conn[p] \in {"reading", "closed"}
    /\ reader[p] = <<>>
    /\ conn' = [conn EXCEPT ![p] = "leaving"]
    /\ reader' = [reader EXCEPT ![p] = <<SP("removePlayer", p)>>]
    /\ out' = {}
    /\ UNCHANGED <<roomVars, inRegistry, mu, timers, tasks, crashed>>

\* removePlayer, the critical section: the player leaves Players,
\* PlayersReady and PlayerOrder.  b and n carry wasCurrentDrawer and
\* playerCountAfter.
removePlayer(h) ==
    /\ UNCHANGED <<startMsgs, calc>>
    /\ scoreAdded' = NoScore
    /\ At(h, "removePlayer")
    /\ CanLock
    /\ LET p == Arg(h).p
           wasCurrentDrawer == Current = p
       IN /\ Players' = Players \ {p}
          /\ PlayersReady' = MapDel(PlayersReady, p)
          /\ PlayerOrder' = Remove(PlayerOrder, p)
          /\ Commit(h, <<Step("removePlayer_branch", p, "", wasCurrentDrawer,
                              Cardinality(Players'))>> \o Rest(h), <<>>)
    /\ out' = {}
    /\ UNCHANGED <<playersNil, IsConnected, IsReady, HasGuessed, CanDraw, Phase,
                   Current, CurrentIndex, Word, WordChoices, RoundNumber,
                   RoundStats, CorrectGuessers, HasGameStarted, CanvasState,
                   Timer, inRegistry, mu, timers, conn, crashed>>

\* removePlayer after Unlock: room.Phase and room.HasGameStarted are read
\* without the lock, which decides what the task calls next.
removePlayer_branch(h) ==
    /\ UNCHANGED <<startMsgs, calc>>
    /\ scoreAdded' = NoScore
    /\ At(h, "removePlayer_branch")
    /\ ~crashed
    /\ LET wasCurrentDrawer == Arg(h).b
           playerCountAfter == Arg(h).n
           turn == IF wasCurrentDrawer /\ Phase = PhaseDrawing
                   THEN <<S0("CancelPhaseTimer")>>
                          \o (IF playerCountAfter >= MinPlayersToStart
                              THEN NextRoundSteps
                              ELSE <<S0("ResetRoomToLobby")>>)
                   ELSE IF playerCountAfter < MinPlayersToStart /\ HasGameStarted
                   THEN <<S0("ResetRoomToLobby")>>
                   ELSE <<>>
           tail == IF playerCountAfter = 0
                   THEN CleanupRoomSteps
                   ELSE <<S0("BroadcastGameState")>>
       IN Commit(h, turn \o tail \o Rest(h), <<>>)
    /\ out' = Emit(IF Arg(h).n = 0 THEN {} ELSE {"player_left"})
    /\ UNCHANGED <<roomVars, inRegistry, mu, timers, conn, crashed>>

\* CleanupRoom: close the connections of the players in the room under the
\* lock, then delete the room from the registry.
CleanupRoom(h) ==
    /\ UNCHANGED <<startMsgs, calc>>
    /\ scoreAdded' = NoScore
    /\ At(h, "CleanupRoom")
    /\ CanLock
    /\ conn' = [q \in DOMAIN conn |->
                  IF q \in Players /\ conn[q] = "reading" THEN "closed"
                  ELSE IF q \in Players /\ conn[q] = "joining" THEN "joining_closed"
                  ELSE conn[q]]
    /\ inRegistry' = FALSE
    /\ Commit(h, Rest(h), <<>>)
    /\ out' = {}
    /\ UNCHANGED <<roomVars, mu, timers, crashed>>

\* CleanupRoom, second critical section: the room's collections, Current and
\* Timer are set to nil.
CleanupRoom_clear(h) ==
    /\ UNCHANGED <<startMsgs, calc>>
    /\ scoreAdded' = NoScore
    /\ At(h, "CleanupRoom_clear")
    /\ CanLock
    /\ Players' = {}
    /\ playersNil' = TRUE
    /\ PlayersReady' = EmptyMap
    /\ PlayerOrder' = <<>>
    /\ CorrectGuessers' = <<>>
    /\ WordChoices' = <<>>
    /\ RoundStats' = <<>>
    /\ CanvasState' = <<>>
    /\ Current' = NoPlayer
    /\ Timer' = [ctx |-> NilTimer, IsActive |-> FALSE]
    /\ timers' = Replaced(timers)
    /\ Commit(h, Rest(h), <<>>)
    /\ out' = {}
    /\ UNCHANGED <<IsConnected, IsReady, HasGuessed, CanDraw, Phase, CurrentIndex,
                   Word, RoundNumber, HasGameStarted, inRegistry, mu, conn,
                   crashed>>

\* BroadcastGameState: nothing is sent when ValidateGameState fails; the
\* masked word is computed in the drawing phase only.
BroadcastGameState(h) ==
    /\ UNCHANGED <<startMsgs, calc>>
    /\ scoreAdded' = NoScore
    /\ At(h, "BroadcastGameState")
    /\ CanRLock
    /\ IF ValidateGameState /\ Phase = PhaseDrawing /\ GetMaskedWord(Word).panic
       THEN /\ crashed' = TRUE
            /\ out' = {}
            /\ UNCHANGED <<reader, tasks>>
       ELSE /\ out' = Emit(IF ValidateGameState THEN {"game_state_update"} ELSE {})
            /\ Commit(h, Rest(h), <<>>)
            /\ UNCHANGED crashed
    /\ UNCHANGED <<roomVars, inRegistry, mu, timers, conn>>

\* ------------------------------------------------------------------ canvas
\* "pixel_draw" from player p; valid: the payload parses and lies on the
\* grid.
HandlePixelDrawEnhanced(p, valid) ==
    /\ UNCHANGED <<startMsgs, calc>>
    /\ scoreAdded' = NoScore
    /\ Idle(p)
    /\ CanLock
    /\ IF Phase = PhaseDrawing /\ Current = p /\ CanDraw[p] /\ valid
       THEN /\ CanvasState' = Append(CanvasState, p)
            /\ out' = Emit({"pixel_draw"})
       ELSE /\ out' = {}
            /\ UNCHANGED CanvasState
    /\ UNCHANGED <<playerVars, Phase, Current, CurrentIndex, Word, WordChoices,
                   RoundNumber, RoundStats, PlayerOrder, PlayersReady,
                   CorrectGuessers, HasGameStarted, Timer, inRegistry, mu,
                   timers, conn, reader, tasks, crashed>>

\* "clear_canvas" from player p: granted to room.Current.
ClearCanvas(p) ==
    /\ UNCHANGED <<startMsgs, calc>>
    /\ scoreAdded' = NoScore
    /\ Idle(p)
    /\ CanLock
    /\ IF Current # p
       THEN /\ out' = {}
            /\ UNCHANGED CanvasState
       ELSE /\ CanvasState' = <<>>
            /\ out' = Emit({"canvas_cleared"})
    /\ UNCHANGED <<playerVars, Phase, Current, CurrentIndex, Word, WordChoices,
                   RoundNumber, RoundStats, PlayerOrder, PlayersReady,
                   CorrectGuessers, HasGameStarted, Timer, inRegistry, mu,
                   timers, conn, reader, tasks, crashed>>

\* ----------------------------------------------------------- specification
TaskStep(h) ==
    \/ AddPlayer(h)
    \/ AddPlayer_welcome(h)
    \/ AddPlayer_check(h)
    \/ StartGame(h)
    \/ StartWaitingPhase(h)
    \/ CancelPhaseTimer(h)
    \/ StartPhaseTimer(h)
    \/ StartWordSelection(h)
    \/ AutoSelect(h)
    \/ HandleWordSelection(h)
    \/ StartDrawingPhase(h)
    \/ DrawingExpired(h)
    \/ StartRevealingPhase(h)
    \/ UpdatePlayerOrder(h)
    \/ NextRound(h)
    \/ NextRound_finish(h)
    \/ EndGame(h)
    \/ ResetRoomToLobby(h)
    \/ removePlayer(h)
    \/ removePlayer_branch(h)
    \/ CleanupRoom(h)
    \/ CleanupRoom_clear(h)
    \/ BroadcastGameState(h)

Next ==
    \/ \E p \in PlayerIds : Connect(p)
    \/ \E p \in PlayerIds :
          (p \in Leavers \/ conn[p] = "closed") /\ Disconnect(p)
    \/ \E p \in PlayerIds, ready \in BOOLEAN : HandlePlayerReady(p, ready)
    \/ \E p \in PlayerIds : StartGameMsg(p)
    \/ \E p \in PlayerIds, w \in Typed : RecvWordSelection(p, w)
    \/ \E p \in PlayerIds, guess \in Typed : HandleGuessEnhanced(p, guess)
    \/ \E p \in PlayerIds, valid \in BOOLEAN : HandlePixelDrawEnhanced(p, valid)
    \/ \E p \in PlayerIds : ClearCanvas(p)
    \/ \E t \in BagToSet(timers) : Expire(t)
    \/ \E t \in BagToSet(timers) : TimerGoroutine(t)
    \/ \E h \in RunningTasks : TaskStep(h)

Spec == Init /\ [][Next]_vars

\* ------------------------------------------------------------- a full room
\* The room after MaxPlayersPerRoom clients have joined it: they sit in the
\* lobby, connected, their readers waiting for messages.  One more client
\* asks to join; of the residents, those of Talkers send player_ready.
FullRoom == 1..MaxPlayersPerRoom
Latecomer == MaxPlayersPerRoom + 1
Talkers == 1..MaxTalkers
InitFull ==
    /\ Players = FullRoom
    /\ playersNil = FALSE
    /\ IsConnected = [p \in FullRoom \cup {Latecomer} |-> p \in FullRoom]
    /\ IsReady = [p \in FullRoom \cup {Latecomer} |-> FALSE]
    /\ HasGuessed = [p \in FullRoom \cup {Latecomer} |-> FALSE]
    /\ CanDraw = [p \in FullRoom \cup {Latecomer} |-> FALSE]
    /\ Phase = PhaseLobby
    /\ Current = NoPlayer
    /\ CurrentIndex = 0
    /\ Word = ""
    /\ WordChoices = <<>>
    /\ RoundNumber = 1
    /\ RoundStats = <<>>
    /\ Timer = [ctx |-> NoCtx, IsActive |-> FALSE]
    /\ PlayerOrder = <<>>
    /\ PlayersReady = EmptyMap
    /\ CorrectGuessers = <<>>
    /\ HasGameStarted = FALSE
    /\ CanvasState = <<>>
    /\ inRegistry = TRUE
    /\ mu = MuFree
    /\ timers = EmptyBag
    /\ conn = [p \in FullRoom \cup {Latecomer} |->
                  IF p \in FullRoom THEN "reading" ELSE "absent"]
    /\ reader = [p \in FullRoom \cup {Latecomer} |-> <<>>]
    /\ tasks = EmptyBag
    /\ crashed = FALSE
    /\ startMsgs = 0
    /\ calc = NoCall
    /\ scoreAdded = NoScore
    /\ out = {}
NextFull ==
    \/ Connect(Latecomer)
    \/ \E p \in Talkers, ready \in BOOLEAN : HandlePlayerReady(p, ready)
    \/ \E h \in RunningTasks : TaskStep(h)
SpecFull == InitFull /\ [][NextFull]_vars

\* ------------------------------------------------------- everybody may leave
\* The room with every client free to go away, and no "start_game" message.
NextLeave ==
    \/ \E p \in PlayerIds : Connect(p)
    \/ \E p \in PlayerIds : Disconnect(p)
    \/ \E p \in PlayerIds, ready \in BOOLEAN : HandlePlayerReady(p, ready)
    \/ \E p \in PlayerIds, w \in Typed : RecvWordSelection(p, w)
    \/ \E p \in PlayerIds, guess \in Typed : HandleGuessEnhanced(p, guess)
    \/ \E p \in PlayerIds, valid \in BOOLEAN : HandlePixelDrawEnhanced(p, valid)
    \/ \E p \in PlayerIds : ClearCanvas(p)
    \/ \E t \in BagToSet(timers) : Expire(t)
    \/ \E t \in BagToSet(timers) : TimerGoroutine(t)
    \/ \E h \in RunningTasks : TaskStep(h)
SpecLeave == Init /\ [][NextLeave]_vars

\* ------------------------------------------------------------ silent clients
\* The room whose clients join, declare themselves ready and then neither
\* send a message nor go away: timers alone drive the game.
NextQuiet ==
    \/ \E p \in PlayerIds : Connect(p)
    \/ \E p \in PlayerIds, ready \in BOOLEAN : HandlePlayerReady(p, ready)
    \/ \E t \in BagToSet(timers) : Expire(t)
    \/ \E t \in BagToSet(timers) : TimerGoroutine(t)
    \/ \E h \in RunningTasks : TaskStep(h)
SpecQuiet == Init /\ [][NextQuiet]_vars

\* ------------------------------------------------------ CalculateGuessPoints
\* CalculateGuessPoints evaluated on elapsed times around the limits of its
\* speed classes, on every rank up to MaxPosition and on every difficulty.
ElapsedSamples == {0, 9999, 10000, 29999, 30000, 59999, 60000, 60001, 90000}
Difficulties == {DifficultyEasy, DifficultyMedium, DifficultyHard}
RoomAtRest ==
    /\ Players = {}
    /\ playersNil = FALSE
    /\ IsConnected = [p \in PlayerIds |-> FALSE]
    /\ IsReady = [p \in PlayerIds |-> FALSE]
    /\ HasGuessed = [p \in PlayerIds |-> FALSE]
    /\ CanDraw = [p \in PlayerIds |-> FALSE]
    /\ Phase = PhaseLobby
    /\ Current = NoPlayer
    /\ CurrentIndex = 0
    /\ Word = ""
    /\ WordChoices = <<>>
    /\ RoundNumber = 1
    /\ RoundStats = <<>>
    /\ Timer = [ctx |-> NoCtx, IsActive |-> FALSE]
    /\ PlayerOrder = <<>>
    /\ PlayersReady = EmptyMap
    /\ CorrectGuessers = <<>>
    /\ HasGameStarted = FALSE
    /\ CanvasState = <<>>
    /\ inRegistry = TRUE
    /\ mu = MuFree
    /\ timers = EmptyBag
    /\ conn = [p \in PlayerIds |-> "absent"]
    /\ reader = [p \in PlayerIds |-> <<>>]
    /\ tasks = EmptyBag
    /\ crashed = FALSE
    /\ startMsgs = 0
    /\ scoreAdded = NoScore
    /\ out = {}
roomFrame == <<roomVars, inRegistry, mu, timers, conn, reader, tasks, crashed,
               startMsgs, scoreAdded, out>>
InitPoints ==
    /\ RoomAtRest
    /\ calc \in [fn : {"CalculateGuessPoints"}, timeTaken : ElapsedSamples,
                  position : 1..MaxPosition, wordDifficulty : Difficulties,
                  done : {FALSE}, result : {0}]
CallCalculateGuessPoints ==
    /\ calc.fn = "CalculateGuessPoints"
    /\ ~calc.done
    /\ calc' = [calc EXCEPT !.done = TRUE,
                            !.result = CalculateGuessPoints(calc.timeTaken,
                                           calc.position, calc.wordDifficulty)]
    /\ UNCHANGED roomFrame
NextPoints == CallCalculateGuessPoints
SpecPoints == InitPoints /\ [][NextPoints]_vars

\* ------------------------------------------------------------ GetMaskedWord
\* GetMaskedWord evaluated on every word of at most MaxWordLen bytes over a
\* small alphabet with the space.
Alphabet == {"c", "a", " "}
Words == UNION {[1..n -> Alphabet] : n \in 0..MaxWordLen}
InitMask ==
    /\ RoomAtRest
    /\ \E w \in Words :
          calc = [fn |-> "GetMaskedWord", word |-> w, done |-> FALSE,
                  panic |-> FALSE, text |-> <<>>]
CallGetMaskedWord ==
    /\ calc.fn = "GetMaskedWord"
    /\ ~calc.done
    /\ calc' = [calc EXCEPT !.done = TRUE,
                            !.panic = GetMaskedBytes(calc.word).panic,
                            !.text = GetMaskedBytes(calc.word).text]
    /\ UNCHANGED roomFrame
NextMask == CallGetMaskedWord
SpecMask == InitMask /\ [][NextMask]_vars

\* ------------------------------------------------------ NormalizeCoordinates
\* math.Floor of the float64 quotient, then the clamp to the grid.  For
\* integers of this size and a positive client dimension the float64 quotient
\* has the floor of the exact one.
NormalizeCoordinates_NoUpperClamp(x, y, clientCanvasWidth, clientCanvasHeight) ==
    LET gx == (x * CanvasWidth) \div clientCanvasWidth
        gy == (y * CanvasHeight) \div clientCanvasHeight
    IN <<IF gx < 0 THEN 0 ELSE gx, IF gy < 0 THEN 0 ELSE gy>>
NormalizeCoordinates(x, y, clientCanvasWidth, clientCanvasHeight) ==
    LET gx == (x * CanvasWidth) \div clientCanvasWidth
        gy == (y * CanvasHeight) \div clientCanvasHeight
    IN <<IF gx < 0 THEN 0
         ELSE IF gx >= CanvasWidth THEN CanvasWidth - 1 ELSE gx,
         IF gy < 0 THEN 0
         ELSE IF gy >= CanvasHeight THEN CanvasHeight - 1 ELSE gy>>

\* Client canvas sizes, and coordinates placed relative to them: before the
\* origin, the origin, the middle, the last client pixel, and beyond it.
ClientWidths == {1, 2, 20, 34, 35, 36, 70, 700}
ClientHeights == {1, 19, 20, 21, 40}
Along(size) == {-5, -1, 0, size \div 2, size - 1, size, size + 7}
InitNormalize ==
    /\ RoomAtRest
    /\ \E cw \in ClientWidths, ch \in ClientHeights :
         \E x \in Along(cw), y \in Along(ch) :
            calc = [fn |-> "NormalizeCoordinates", x |-> x, y |-> y,
                    clientCanvasWidth |-> cw, clientCanvasHeight |-> ch,
                    done |-> FALSE, result |-> <<0, 0>>]
CallNormalizeCoordinates ==
    /\ calc.fn = "NormalizeCoordinates"
    /\ ~calc.done
    /\ calc' = [calc EXCEPT !.done = TRUE,
                            !.result = NormalizeCoordinates(calc.x, calc.y,
                                           calc.clientCanvasWidth,
                                           calc.clientCanvasHeight)]
    /\ UNCHANGED roomFrame
NextNormalize == CallNormalizeCoordinates
SpecNormalize == InitNormalize /\ [][NextNormalize]_vars

\* ------------------------------------------- the canvas of HandlePixelDraw
BatchPlace == "batch_place"
PixelPlace == "pixel"
ErasePixel == "erase"
BatchErase == "batch_erase"
NilCoord == -999       \* a nil *int
\* A PixelMessage: a single operation has X and Y, a batch has Pixels.
SinglePixel(type, x, y) == [Type |-> type, X |-> x, Y |-> y, Pixels |-> <<>>]
Batch(type, pixels) ==
    [Type |-> type, X |-> NilCoord, Y |-> NilCoord, Pixels |-> pixels]
OnGrid(x, y) ==
    ~(x < 0 \/ x >= CanvasWidth \/ y < 0 \/ y >= CanvasHeight)
NormalizeAll(pixels, cw, ch) ==
    [i \in DOMAIN pixels |->
        NormalizeCoordinates(pixels[i][1], pixels[i][2], cw, ch)]

\* Steps 8 of HandlePixelDrawEnhanced on a validated, normalized message,
\* with an erase that also drops the batches holding the position.
ApplyToCanvas_EraseBatches(canvasState, pixelMessage) ==
    CASE pixelMessage.Type \in {PixelPlace, BatchPlace} ->
            Append(canvasState, pixelMessage)
      [] pixelMessage.Type = ErasePixel ->
            SelectSeq(canvasState, LAMBDA existing :
                ~(\/ /\ existing.Type = PixelPlace
                      /\ existing.X = pixelMessage.X
                      /\ existing.Y = pixelMessage.Y
                  \/ /\ existing.Type = BatchPlace
                      /\ <<pixelMessage.X, pixelMessage.Y>>
                            \in Range(existing.Pixels)))
      [] pixelMessage.Type = BatchErase ->
            SelectSeq(canvasState, LAMBDA existing :
                ~(/\ existing.Type = PixelPlace
                  /\ existing.X # NilCoord /\ existing.Y # NilCoord
                  /\ <<existing.X, existing.Y>> \in Range(pixelMessage.Pixels)))
      [] OTHER -> canvasState
\* Step 8 of HandlePixelDrawEnhanced on a validated, normalized message.
ApplyToCanvas(canvasState, pixelMessage) ==
    CASE pixelMessage.Type \in {PixelPlace, BatchPlace} ->
            Append(canvasState, pixelMessage)
      [] pixelMessage.Type = ErasePixel ->
            SelectSeq(canvasState, LAMBDA existing :
                ~(/\ existing.Type = PixelPlace
                  /\ existing.X # NilCoord /\ existing.Y # NilCoord
                  /\ existing.X = pixelMessage.X
                  /\ existing.Y = pixelMessage.Y))
      [] pixelMessage.Type = BatchErase ->
            SelectSeq(canvasState, LAMBDA existing :
                ~(/\ existing.Type = PixelPlace
                  /\ existing.X # NilCoord /\ existing.Y # NilCoord
                  /\ <<existing.X, existing.Y>> \in Range(pixelMessage.Pixels)))
      [] OTHER -> canvasState
\* Steps 6 to 8 of HandlePixelDrawEnhanced for a drawer whose client canvas
\* is cw by ch: validation against the grid, normalization, then the change
\* of room.CanvasState.  A rejected message leaves the canvas as it is.
ApplyPixelMessage(canvasState, pixelMessage, cw, ch) ==
    IF pixelMessage.Type \in {PixelPlace, ErasePixel}
    THEN IF pixelMessage.X = NilCoord \/ pixelMessage.Y = NilCoord
            \/ ~OnGrid(pixelMessage.X, pixelMessage.Y)
         THEN canvasState
         ELSE LET g == NormalizeCoordinates(pixelMessage.X, pixelMessage.Y,
                                            cw, ch)
              IN ApplyToCanvas(canvasState,
                               SinglePixel(pixelMessage.Type, g[1], g[2]))
    ELSE IF pixelMessage.Type \in {BatchPlace, BatchErase}
    THEN LET validPixels == SelectSeq(pixelMessage.Pixels,
                                      LAMBDA q : OnGrid(q[1], q[2]))
         IN IF Len(validPixels) = 0
            THEN canvasState
            ELSE ApplyToCanvas(canvasState,
                               Batch(pixelMessage.Type,
                                     NormalizeAll(validPixels, cw, ch)))
    ELSE ApplyToCanvas(canvasState, pixelMessage)

\* Canvases of at most MaxCanvas entries, each a pixel or a one-pixel batch
\* on a cell of GridSamples; the drawer then places and erases a pixel at a
\* position of Positions, which are on the grid.
GridSamples == {<<0, 0>>, <<1, 0>>, <<17, 9>>, <<34, 19>>}
Positions == {<<0, 0>>, <<1, 0>>, <<2, 0>>, <<34, 19>>}
ClientSizes == {<<35, 20>>, <<70, 40>>}
Entries ==
    {SinglePixel(PixelPlace, g[1], g[2]) : g \in GridSamples}
        \cup {Batch(BatchPlace, <<g>>) : g \in GridSamples}
Canvases == UNION {[1..n -> Entries] : n \in 0..MaxCanvas}
InitCanvas ==
    /\ RoomAtRest
    /\ \E c \in Canvases, pos \in Positions, size \in ClientSizes :
          calc = [fn |-> "HandlePixelDrawEnhanced", before |-> c, canvas |-> c,
                  x |-> pos[1], y |-> pos[2], cw |-> size[1], ch |-> size[2],
                  sent |-> <<>>]
SendPixel(type) ==
    /\ calc.fn = "HandlePixelDrawEnhanced"
    /\ \/ type = PixelPlace /\ calc.sent = <<>>
       \/ type = ErasePixel /\ calc.sent = <<PixelPlace>>
    /\ calc' = [calc EXCEPT
                  !.canvas = ApplyPixelMessage(calc.canvas,
                                SinglePixel(type, calc.x, calc.y),
                                calc.cw, calc.ch),
                  !.sent = Append(calc.sent, type)]
    /\ UNCHANGED roomFrame
NextCanvas == \E type \in {PixelPlace, ErasePixel} : SendPixel(type)
SpecCanvas == InitCanvas /\ [][NextCanvas]_vars

\* ------------------------------------------- the contexts of the phase timer
\* The life of the contexts StartPhaseTimer makes, one after the other, on a
\* room nothing else happens to.  A timer goroutine is [id, st, cur]: st is
\* what ctx.Err() would return ("running": nil, "expired": DeadlineExceeded,
\* "cancelled": Canceled), cur: room.Timer.Context is its context.  calc
\* keeps the count of the contexts made, and per context what became of it.
timerFrame == <<playerVars, gameVars, inRegistry, mu, conn, reader, tasks,
                crashed, startMsgs, scoreAdded, out>>
InitTimer ==
    /\ RoomAtRest
    /\ calc = [fn |-> "StartPhaseTimer", made |-> 0,
               fired |-> [i \in 1..MaxContexts |-> 0],
               cancelled |-> {}, expired |-> {}]

\* cancel() of room.Timer: a context whose deadline has not passed gets the
\* error Canceled; one that is done keeps the error it has.
CancelOf(B) ==
    {IF t.cur /\ t.st = "running" THEN [t EXCEPT !.st = "cancelled"] ELSE t :
        t \in B}
CancelledBy(B) == {t.id : t \in {x \in B : x.cur /\ x.st = "running"}}

\* CancelPhaseTimer on the room at rest.
TimerCancel ==
    /\ calc.fn = "StartPhaseTimer"
    /\ IF Timer.ctx = NilTimer \/ ~Timer.IsActive
       THEN UNCHANGED <<Timer, timers, calc>>
       ELSE /\ timers' = SetToBag(CancelOf(BagToSet(timers)))
            /\ Timer' = [Timer EXCEPT !.IsActive = FALSE]
            /\ calc' = [calc EXCEPT !.cancelled = @ \cup CancelledBy(BagToSet(timers))]
    /\ UNCHANGED timerFrame

\* StartPhaseTimer: CancelPhaseTimer, then a new context in room.Timer and
\* its goroutine.
TimerStart ==
    /\ calc.fn = "StartPhaseTimer"
    /\ calc.made < MaxContexts
    /\ LET live == Timer.ctx # NilTimer /\ Timer.IsActive
           B == IF live THEN CancelOf(BagToSet(timers)) ELSE BagToSet(timers)
           id == calc.made + 1
       IN /\ timers' = SetToBag({[t EXCEPT !.cur = FALSE] : t \in B}
                                   \cup {[id |-> id, st |-> "running", cur |-> TRUE]})
          /\ calc' = [calc EXCEPT !.made = id,
                                  !.cancelled = IF live
                                                THEN @ \cup CancelledBy(BagToSet(timers))
                                                ELSE @]
    /\ Timer' = [ctx |-> HasCtx, IsActive |-> TRUE]
    /\ UNCHANGED timerFrame

\* The deadline of a context passes before anybody cancelled it.
ContextDeadline(t) ==
    /\ calc.fn = "StartPhaseTimer"
    /\ t.st = "running"
    /\ timers' = (timers (-) SetToBag({t}))
                    (+) SetToBag({[t EXCEPT !.st = "expired"]})
    /\ calc' = [calc EXCEPT !.expired = @ \cup {t.id}]
    /\ UNCHANGED <<Timer, timerFrame>>

\* The goroutine of a timer at <-ctx.Done(): it clears IsActive when
\* room.Timer is still its timer, starts onExpire when ctx.Err() is
\* DeadlineExceeded, and returns.
ContextDone_AlwaysExpires(t) ==
    /\ calc.fn = "StartPhaseTimer"
    /\ t.st \in {"expired", "cancelled"}
    /\ CanLock
    /\ Timer' = IF Timer.ctx # NilTimer /\ t.cur
                THEN [Timer EXCEPT !.IsActive = FALSE] ELSE Timer
    /\ timers' = timers (-) SetToBag({t})
    /\ calc' = [calc EXCEPT !.fired[t.id] = @ + 1]
    /\ UNCHANGED timerFrame
ContextDone(t) ==
    /\ calc.fn = "StartPhaseTimer"
    /\ t.st \in {"expired", "cancelled"}
    /\ CanLock
    /\ Timer' = IF Timer.ctx # NilTimer /\ t.cur
                THEN [Timer EXCEPT !.IsActive = FALSE] ELSE Timer
    /\ timers' = timers (-) SetToBag({t})
    /\ calc' = IF t.st = "expired"
               THEN [calc EXCEPT !.fired[t.id] = @ + 1] ELSE calc
    /\ UNCHANGED timerFrame

NextTimer ==
    \/ TimerStart
    \/ TimerCancel
    \/ \E t \in BagToSet(timers) : ContextDeadline(t)
    \/ \E t \in BagToSet(timers) : ContextDone(t)
SpecTimer == InitTimer /\ [][NextTimer]_vars

\* ------------------------------------------- the writers of one connection
\* The tasks that write to the connection of one player, the drawer of the
\* round, each about to send one message.  calc keeps where each of them
\* is ("before", "writing": inside Conn.WriteJSON, "after") and who holds
\* the Mu of the player.  BroadcastGameState calls Conn.WriteJSON on the
\* drawer's connection itself; the others call Player.SafeWriteJSON.
Senders == {"SafeBroadcastToRoom", "SafeBroadcastToRoomExcept",
            "StartWordSelection", "StartDrawingPhase", "AddPlayer",
            "BroadcastGameState"}
CallsSafeWriteJSON == Senders \ {"BroadcastGameState"}
InitWrite ==
    /\ RoomAtRest
    /\ calc = [fn |-> "WriteJSON", at |-> [s \in Senders |-> "before"],
               Mu |-> "free"]

\* SafeWriteJSON: p.Mu.Lock(), then Conn.WriteJSON begins.
SafeWriteJSON(s) ==
    /\ calc.fn = "WriteJSON"
    /\ s \in CallsSafeWriteJSON
    /\ calc.at[s] = "before"
    /\ calc.Mu = "free"
    /\ calc' = [calc EXCEPT !.at[s] = "writing", !.Mu = s]
    /\ UNCHANGED roomFrame

\* currentDrawer.Conn.WriteJSON begins, called by the sender itself.
ConnWriteJSON(s) ==
    /\ calc.fn = "WriteJSON"
    /\ s \notin CallsSafeWriteJSON
    /\ calc.at[s] = "before"
    /\ calc' = [calc EXCEPT !.at[s] = "writing"]
    /\ UNCHANGED roomFrame

\* Conn.WriteJSON returns; the deferred p.Mu.Unlock() of SafeWriteJSON runs.
WriteReturns(s) ==
    /\ calc.fn = "WriteJSON"
    /\ calc.at[s] = "writing"
    /\ calc' = [calc EXCEPT !.at[s] = "after",
                            !.Mu = IF @ = s THEN "free" ELSE @]
    /\ UNCHANGED roomFrame

NextWrite ==
    \/ \E s \in Senders : SafeWriteJSON(s)
    \/ \E s \in Senders : ConnWriteJSON(s)
    \/ \E s \in Senders : WriteReturns(s)
SpecWrite == InitWrite /\ [][NextWrite]_vars

\* ------------------------------------------------ the locks of the package
\* The calls of Lock, RLock, Unlock and RUnlock a function of the package
\* makes, in the order it makes them, the calls of the functions it calls
\* included: on RoomsMu (the registry), room.Mu and player.Mu (the write
\* lock of SafeWriteJSON).  removePlayer is taken with the room left empty.
LockingFunctions == {"GetJoinableRoom", "getOrCreateRoom", "AddPlayer",
                     "removePlayer", "CleanupRoom", "SafeBroadcastToRoom",
                     "HandlePlayerReady", "ResetRoomToLobby"}
\* CleanupRoom: the connections closed under room.Mu, the room deleted under
\* RoomsMu, the collections cleared under room.Mu.
CleanupLocks_Nested ==
    <<[op |-> "Lock", mu |-> "room.Mu"], [op |-> "Lock", mu |-> "RoomsMu"],
      [op |-> "Unlock", mu |-> "RoomsMu"], [op |-> "Unlock", mu |-> "room.Mu"]>>
CleanupLocks ==
    <<[op |-> "Lock", mu |-> "room.Mu"], [op |-> "Unlock", mu |-> "room.Mu"],
      [op |-> "Lock", mu |-> "RoomsMu"], [op |-> "Unlock", mu |-> "RoomsMu"],
      [op |-> "Lock", mu |-> "room.Mu"], [op |-> "Unlock", mu |-> "room.Mu"]>>
LockOps(fn) ==
    LET op(o, m) == [op |-> o, mu |-> m]
        room == <<op("Lock", "room.Mu"), op("Unlock", "room.Mu")>>
        roomR == <<op("RLock", "room.Mu"), op("RUnlock", "room.Mu")>>
        registry == <<op("Lock", "RoomsMu"), op("Unlock", "RoomsMu")>>
        write == <<op("Lock", "player.Mu"), op("Unlock", "player.Mu")>>
        broadcast == room \o write
    IN CASE fn = "GetJoinableRoom" ->
              <<op("RLock", "RoomsMu")>> \o roomR \o <<op("RUnlock", "RoomsMu")>>
         [] fn = "getOrCreateRoom" -> registry
         [] fn = "AddPlayer" ->
              registry \o room \o broadcast \o roomR \o write \o roomR
         [] fn = "removePlayer" -> room \o CleanupLocks \o registry
         [] fn = "CleanupRoom" -> CleanupLocks
         [] fn = "SafeBroadcastToRoom" -> broadcast
         [] fn = "HandlePlayerReady" -> room \o broadcast
         [] fn = "ResetRoomToLobby" ->
              <<op("Lock", "room.Mu")>> \o room \o <<op("Unlock", "room.Mu")>>
                 \o broadcast

InitLocks ==
    /\ RoomAtRest
    /\ \E run \in [1..MaxLockers -> {LockOps(fn) : fn \in LockingFunctions}] :
          calc = [fn |-> "Lock", todo |-> run, held |-> [t \in 1..MaxLockers |-> <<>>]]

\* Lock or RLock returns: nobody holds the lock, or, for RLock, nobody
\* holds it for writing.
Acquire(t) ==
    /\ calc.fn = "Lock"
    /\ calc.todo[t] # <<>>
    /\ LET o == Head(calc.todo[t])
           HeldLocks == UNION {Range(calc.held[u]) : u \in 1..MaxLockers}
       IN
          /\ o.op \in {"Lock", "RLock"}
          /\ [op |-> "Lock", mu |-> o.mu] \notin HeldLocks
          /\ o.op = "Lock" => [op |-> "RLock", mu |-> o.mu] \notin HeldLocks
          /\ calc' = [calc EXCEPT !.todo[t] = Tail(@),
                                  !.held[t] = Append(@, o)]
    /\ UNCHANGED roomFrame

\* Unlock or RUnlock of the lock the task took last.
Release(t) ==
    /\ calc.fn = "Lock"
    /\ calc.todo[t] # <<>>
    /\ Head(calc.todo[t]).op \in {"Unlock", "RUnlock"}
    /\ calc.held[t] # <<>>
    /\ LET h == calc.held[t] IN
          calc' = [calc EXCEPT !.todo[t] = Tail(@),
                                  !.held[t] = SelectSeq(h, LAMBDA e :
                                      e.mu # Head(calc.todo[t]).mu)]
    /\ UNCHANGED roomFrame

NextLocks ==
    \/ \E t \in 1..MaxLockers : Acquire(t)
    \/ \E t \in 1..MaxLockers : Release(t)
SpecLocks == InitLocks /\ [][NextLocks]_vars

\* ------------------------------------------------------------------ claims
\* C1: every hold of the room lock is bounded.  Between two steps the lock
\* is never held by a task whose next statement is room.Mu.Lock(): such a
\* task waits for itself, never unlocks, and every other task waits forever.
C1_LockHoldsBounded == mu.st # "held"

C3_DrawerAloneCanDraw ==
    LET canDraw == {p \in Players : CanDraw[p]}
    IN IF Phase = PhaseDrawing
       THEN /\ CurrentIndex + 1 \in DOMAIN PlayerOrder
            /\ canDraw = {PlayerOrder[CurrentIndex + 1]}
       ELSE canDraw = {}

\* C4: word is non-empty iff phase is drawing or revealing.
C4_WordIffDrawingOrRevealing ==
    (Word # "") <=> (Phase \in {PhaseDrawing, PhaseRevealing})

\* C5: whenever PlayerOrder is non-empty, 0 <= CurrentIndex < len(PlayerOrder).
C5_CurrentIndexInRange ==
    PlayerOrder # <<>> => (0 <= CurrentIndex /\ CurrentIndex < Len(PlayerOrder))

\* C6: CorrectGuessers holds each player id at most once and never the id of
\* the current drawer.
C6_CorrectGuessersDistinctNoDrawer ==
    /\ \A i, j \in DOMAIN CorrectGuessers :
           CorrectGuessers[i] = CorrectGuessers[j] => i = j
    /\ Current # NoPlayer => Current \notin Range(CorrectGuessers)

\* C7: a room has at most one live phase timer: at most one timer goroutine
\* whose context can still reach or has reached its deadline and which will
\* then call onExpire.
C7_AtMostOneLiveTimer == BagCardinality(timers) <= 1

\* C8: a timer that is no longer the room's current Timer when it completes
\* does not invoke its onExpire callback: the step in which the goroutine of
\* a replaced timer ends starts no goroutine.
C8_StaleTimerDeclines ==
    [][\A t \in BagToSet(timers) :
          (~t.cur /\ t.st = "expired" /\ timers' = timers (-) SetToBag({t}))
             => tasks' = tasks]_vars

\* C9: word selection is idempotent.  A word_selection handled while word is
\* set (a message from a client, or the auto-select callback and the
\* HandleWordSelection it starts) leaves the room and its timers unchanged
\* and starts no StartDrawingPhase goroutine; the handler has nothing more
\* to run.
WordSelectionStep ==
    \/ \E p \in PlayerIds, w \in Typed : RecvWordSelection(p, w)
    \/ \E h \in RunningTasks : HandleWordSelection(h) \/ AutoSelect(h)
C9_WordSelectionIdempotent ==
    [][(Word # "" /\ WordSelectionStep)
          => /\ UNCHANGED <<roomVars, timers, mu, crashed>>
             /\ \A p \in PlayerIds : reader'[p] \in {reader[p], <<>>}
             /\ \A c \in BagToSet(tasks') :
                    CopiesIn(c, tasks') <= CopiesIn(c, tasks)]_vars
\* The drawer's second word_selection of a turn was turned down.
C9_SecondSelectionHandled == Word # "" /\ "log: word already chosen" \in out

\* C10: a pixel_draw or clear_canvas message changes canvasState and is
\* broadcast only if phase is drawing, the sender is the current drawer and
\* the sender has canDraw.
C10_CanvasOnlyByDrawerWhileDrawing ==
    (out \cap {"pixel_draw", "canvas_cleared"}) # {}
        => (Phase = PhaseDrawing /\ Current # NoPlayer /\ CanDraw[Current])

\* C11: AddPlayer on a room that holds MaxPlayersPerRoom players returns an
\* error without side effects: the client whose join was refused is not in
\* room.Players.
C11_RefusedJoinNotInPlayers ==
    \A p \in DOMAIN conn : conn[p] = "rejected" => p \notin Players

FixedMembership == \A p \in PlayerIds : conn[p] = "reading"
LastTurnOfLastRound ==
    /\ PlayerOrder # <<>>
    /\ RoundNumber = MaxRounds
    /\ CurrentIndex = Len(PlayerOrder) - 1
PendingFinish(r, t) ==
    Cardinality(UNION {{<<q, i>> : i \in {j \in DOMAIN r[q] :
                                            r[q][j].op = "NextRound_finish"}} :
                       q \in DOMAIN r})
      + Cardinality(UNION {{<<c, i>> : i \in {j \in DOMAIN c :
                                              c[j].op = "NextRound_finish"}} :
                           c \in BagToSet(t)})
EndGameStarted ==
    CopiesIn(<<S0("EndGame")>>, tasks') > CopiesIn(<<S0("EndGame")>>, tasks)
C16_ResetReachesLobby ==
    [][(\E h \in RunningTasks : ResetRoomToLobby(h))
          => (Phase' = PhaseLobby /\ ~HasGameStarted' /\ "lobby_reset" \in out')]_vars

\* C17: when the last player of a room is removed the room is removed from the
\* registry: once every client of a registered room has gone, the room lock
\* is not held by a task that never releases it, so that the removals and
\* CleanupRoom can run.
C17_EmptyRoomCanBeCleaned ==
    (inRegistry /\ \A p \in PlayerIds : conn[p] = "leaving") => mu.st # "held"

\* C18: EndGame sets phase to ended, broadcasts game_ended and starts the
\* timer that resets the room: the EndGame step hands out game_ended and
\* leaves the room lock free for StartPhaseTimer.
C18_EndGameAnnouncesAndArmsReset ==
    [][(\E h \in RunningTasks : EndGame(h))
          => (Phase' = PhaseEnded /\ "game_ended" \in out' /\ mu'.st = "free")]_vars

\* C19: StartGame takes effect only in the lobby and at most once per game: a
\* StartGame that runs in another phase, or after the game has started,
\* leaves roundNumber, CurrentIndex, PlayerOrder and RoundStats alone and
\* does not go on to StartWaitingPhase.
C19_StartGameOnlyFromLobby ==
    [][((\E h \in RunningTasks : StartGame(h))
          /\ (Phase # PhaseLobby \/ HasGameStarted))
          => /\ UNCHANGED <<RoundNumber, CurrentIndex, PlayerOrder, RoundStats>>
             /\ CopiesIn(StartWaitingPhaseSteps, tasks') = 0]_vars

\* C20: when the drawer stays connected and sends no selection, the selection
\* timer's callback selects wordChoices[0] and the room enters phase drawing
\* with that word: AutoSelect hands the first choice to HandleWordSelection,
\* and the StartDrawingPhase that follows leaves the room in phase drawing
\* with the word and the server running.
C20_AutoSelectedWordIsDrawn ==
    [][/\ \A h \in RunningTasks :
             (AutoSelect(h) /\ Word = "" /\ WordChoices # <<>>)
                => CopiesIn(<<SPW("HandleWordSelection", Arg(h).p,
                                  WordChoices[1])>>, tasks') > 0
       /\ ((\E h \in RunningTasks : StartDrawingPhase(h))
             /\ Word # "" /\ Current # NoPlayer)
             => (Phase' = PhaseDrawing /\ Word' = Word /\ ~crashed')]_vars

\* The scoring table: the points of a correct guess by elapsed time in
\* milliseconds, rank and difficulty.
GuessPointsTable(elapsed, position, difficulty) ==
    LET base == CASE difficulty = DifficultyEasy -> 100
                  [] difficulty = DifficultyMedium -> 150
                  [] difficulty = DifficultyHard -> 200
        speed4 == IF elapsed < 10000 THEN 6
                  ELSE IF elapsed < 30000 THEN 5
                  ELSE IF elapsed < 60000 THEN 4 ELSE 3
        pos10 == IF position = 1 THEN 10
                 ELSE IF position = 2 THEN 8
                 ELSE IF position = 3 THEN 6 ELSE 4
    IN (base * speed4 * pos10) \div 40

\* C22: CalculateGuessPoints returns floor(base * speed * pos) with base
\* 100/150/200 for easy/medium/hard, speed 1.5 below 10 s, 1.25 below 30 s,
\* 1.0 below 60 s and 0.75 from 60 s on, and pos 1.0/0.8/0.6/0.4 for rank
\* 1/2/3/4 and more; guessPoints(60.0 s, 4, hard) = 60.
C22_PointsFollowTheTable ==
    (calc.fn = "CalculateGuessPoints" /\ calc.done)
        => calc.result = GuessPointsTable(calc.timeTaken, calc.position,
                                          calc.wordDifficulty)

\* C21: scores change only through a correct guess processed while phase is
\* drawing, which adds 50 to the current drawer's score and the guess points
\* to the guesser's alone.
C21_ScoreOnlyWhileDrawing ==
    scoreAdded # NoScore
        => /\ Phase = PhaseDrawing
           /\ Current # NoPlayer /\ scoreAdded[Current] = 50
           /\ Cardinality({p \in DOMAIN scoreAdded : scoreAdded[p] # 0}) = 2

NormalizeKeepsToGrid ==
    /\ calc.result[1] \in 0..(CanvasWidth - 1)
    /\ calc.result[2] \in 0..(CanvasHeight - 1)
    /\ calc.x <= 0 => calc.result[1] = 0
    /\ calc.y <= 0 => calc.result[2] = 0
NormalizedLastPixel ==
    /\ calc.x = calc.clientCanvasWidth - 1 => calc.result[1] = CanvasWidth - 1
    /\ calc.y = calc.clientCanvasHeight - 1 => calc.result[2] = CanvasHeight - 1

\* C26 as stated: for all client dimensions cW >= 1 and cH >= 1,
\* NormalizeCoordinates(cW-1, cH-1, cW, cH) = (34, 19), (0, 0) gives (0, 0),
\* a negative coordinate gives 0 on its axis and every result lies in
\* [0,34] x [0,19].
C26_LastPixelForEveryClientSize ==
    (calc.fn = "NormalizeCoordinates" /\ calc.done)
        => (NormalizeKeepsToGrid /\ NormalizedLastPixel)

\* C26 amended: the last client pixel is taken to the last grid cell on an
\* axis where the client canvas is at least as large as the grid (cW >= 35,
\* cH >= 20); the origin, negative coordinates and the range are as stated
\* for every client size.
C26_LastPixelForLargeClients ==
    (calc.fn = "NormalizeCoordinates" /\ calc.done)
        => /\ NormalizeKeepsToGrid
           /\ (calc.clientCanvasWidth >= CanvasWidth
                 /\ calc.x = calc.clientCanvasWidth - 1)
                 => calc.result[1] = CanvasWidth - 1
           /\ (calc.clientCanvasHeight >= CanvasHeight
                 /\ calc.y = calc.clientCanvasHeight - 1)
                 => calc.result[2] = CanvasHeight - 1
C26_LastPixelNormalized ==
    /\ calc.fn = "NormalizeCoordinates" /\ calc.done
    /\ calc.clientCanvasWidth > CanvasWidth
    /\ calc.clientCanvasHeight > CanvasHeight
    /\ calc.x = calc.clientCanvasWidth - 1
    /\ calc.y = calc.clientCanvasHeight - 1
    /\ calc.result = <<CanvasWidth - 1, CanvasHeight - 1>>

\* The cell the drawer's position is normalized to, and whether a canvas
\* entry is a single pixel on it.
DrawnCell == NormalizeCoordinates(calc.x, calc.y, calc.cw, calc.ch)
PixelOnDrawnCell(e) ==
    e.Type = PixelPlace /\ <<e.X, e.Y>> = DrawnCell
PlacedAndErased ==
    calc.fn = "HandlePixelDrawEnhanced" /\ calc.sent = <<PixelPlace, ErasePixel>>

\* C25 as stated: for every canvasState C and every in-range position (x,y),
\* pixel(x,y) followed by erase(x,y) yields exactly C.
C25_PlaceThenEraseRestores ==
    PlacedAndErased => calc.canvas = calc.before

\* C25 amended: pixel(x,y) followed by erase(x,y) yields C without its single
\* pixel entries on the cell (x,y) is normalized to, every other entry and
\* every batch_place entry kept in order; that is C itself when C holds no
\* single pixel on that cell.
C25_PlaceThenEraseDropsTheCell ==
    PlacedAndErased
        => calc.canvas = SelectSeq(calc.before,
                                   LAMBDA e : ~PixelOnDrawnCell(e))
C25_RestoredWithBatchKept ==
    /\ PlacedAndErased
    /\ calc.canvas = calc.before
    /\ \E i \in DOMAIN calc.before :
          /\ calc.before[i].Type = BatchPlace
          /\ DrawnCell \in Range(calc.before[i].Pixels)
    /\ \E i \in DOMAIN calc.before : calc.before[i].Type = PixelPlace

\* The masked form of a word: its characters joined by single spaces, every
\* character but the space replaced by "_".
RECURSIVE MaskedForm(_)
MaskedForm(chars) ==
    IF chars = <<>> THEN <<>>
    ELSE LET m == IF Head(chars) = " " THEN " " ELSE "_"
         IN IF Len(chars) = 1 THEN <<m>>
            ELSE <<m, " ">> \o MaskedForm(Tail(chars))

\* C27: GetMaskedWord(w) returns normally for every word w and yields the
\* characters of w joined by single spaces with every non-space character
\* replaced by "_" and spaces preserved.
C27_MaskReturnsMaskedForm ==
    (calc.fn = "GetMaskedWord" /\ calc.done)
        => (~calc.panic /\ calc.text = MaskedForm(calc.word))

\* C28: no task operates on a player connection while it holds the room
\* lock.  The section of CleanupRoom between room.Mu.Lock and room.Mu.Unlock
\* is the one place of the package where a connection is touched inside the
\* lock: the step leaves every connection as it was.
C28_NoConnectionOpUnderRoomLock ==
    [][(\E h \in RunningTasks : CleanupRoom(h)) => conn' = conn]_vars

\* C29: a timer cancelled before its deadline never invokes onExpire, and
\* onExpire is invoked at most once per timer and only when the deadline of
\* the timer passed.
C29_OnExpireOnlyOnNaturalExpiry ==
    calc.fn = "StartPhaseTimer" =>
        \A i \in 1..MaxContexts :
            /\ calc.fired[i] <= 1
            /\ i \in calc.cancelled => calc.fired[i] = 0
            /\ calc.fired[i] = 1 => i \in calc.expired
\* One timer was cancelled and its goroutine has returned, another expired
\* and ran its onExpire.
C29_CancelledReturnedExpiredFired ==
    /\ calc.fn = "StartPhaseTimer"
    /\ \E i \in calc.cancelled : \A t \in BagToSet(timers) : t.id # i
    /\ \E i \in calc.expired : calc.fired[i] = 1

\* C30: the writes to the connection of one player are serialized for every
\* sender: at most one of them is inside Conn.WriteJSON at a time.
C30_OneWriteInFlight ==
    calc.fn = "WriteJSON" =>
        Cardinality({s \in Senders : calc.at[s] = "writing"}) <= 1

\* The place of a lock in the order registry, room, per-player write.
LockRank(m) == CASE m = "RoomsMu" -> 1 [] m = "room.Mu" -> 2 [] m = "player.Mu" -> 3
\* C31: locks are taken in the order registry, room, per-player write: a
\* task that is about to take a lock, or has taken it, holds no lock that
\* comes later in the order.
C31_LockOrder ==
    calc.fn = "Lock" =>
        \A t \in 1..MaxLockers :
            /\ \A i, j \in DOMAIN calc.held[t] :
                  i < j => LockRank(calc.held[t][i].mu) <= LockRank(calc.held[t][j].mu)
            /\ (calc.todo[t] # <<>> /\ Head(calc.todo[t]).op \in {"Lock", "RLock"})
                  => \A i \in DOMAIN calc.held[t] :
                        LockRank(calc.held[t][i].mu) <= LockRank(Head(calc.todo[t]).mu)
\* A task holds the registry lock and the room lock, taken in this order,
\* while another holds the write lock of a player.
C31_NestedInOrder ==
    /\ calc.fn = "Lock"
    /\ \E t, u \in 1..MaxLockers :
          /\ Len(calc.held[t]) = 2
          /\ calc.held[t][1].mu = "RoomsMu" /\ calc.held[t][2].mu = "room.Mu"
          /\ Len(calc.held[u]) = 1 /\ calc.held[u][1].mu = "player.Mu"

\* C32: the registry lock is not held by a task at the moment it acquires
\* a room lock, for reading or for writing.
C32_RegistryNotHeldAtRoomLock ==
    calc.fn = "Lock" =>
        \A t \in 1..MaxLockers :
            (\E i \in DOMAIN calc.held[t] : calc.held[t][i].mu = "room.Mu")
               => \A i \in DOMAIN calc.held[t] : calc.held[t][i].mu # "RoomsMu"

\* C33: CancelPhaseTimer on a room whose timer is absent or inactive changes
\* nothing in the room and its timers and broadcasts no timer_update; on an
\* active timer it leaves the timer inactive and broadcasts one timer_update,
\* so that a second cancellation in a row finds nothing to do.
C33_CancelInactiveIsNoOp ==
    [][(\E h \in RunningTasks : CancelPhaseTimer(h))
          => IF Timer.ctx = NilTimer \/ ~Timer.IsActive
             THEN UNCHANGED <<roomVars, timers>> /\ "timer_update" \notin out'
             ELSE /\ ~Timer'.IsActive
                  /\ "timer_update" \in out'
                  /\ UNCHANGED <<playerVars, gameVars>>]_vars
\* A task has come back from CancelPhaseTimer on a timer that an earlier
\* cancellation had left inactive: nothing was broadcast.
C33_CancelledAgainQuietly ==
    /\ \E h \in RunningTasks : At(h, "StartPhaseTimer")
    /\ Timer.ctx = HasCtx /\ ~Timer.IsActive
    /\ \A t \in BagToSet(timers) : ~t.cur
    /\ "timer_update" \notin out

\* C34: a guess_message handled while phase is lobby, and a player_ready
\* handled while phase is not lobby, are dropped: the step changes nothing
\* in the room and its players, starts nothing and broadcasts nothing.
C34_DroppedMessagesChangeNothing ==
    [][(\/ Phase = PhaseLobby
           /\ \E p \in PlayerIds, guess \in Typed : HandleGuessEnhanced(p, guess)
        \/ Phase # PhaseLobby
           /\ \E p \in PlayerIds, ready \in BOOLEAN : HandlePlayerReady(p, ready))
          => UNCHANGED <<roomVars, timers, reader, tasks>> /\ out' = {}]_vars

\* C35: wordChoices is non-empty if and only if the room is in phase
\* selection, a phase of its own between waiting and drawing.
C35_ChoicesIffSelection ==
    (WordChoices # <<>>) <=> (Phase = "selection")

\* C36: when the removal of the last player and the cleanup of the room run
\* next to AddPlayer of a new player, neither task fails, and a player whose
\* AddPlayer returned success is in room.Players of a room that is in the
\* registry and whose player map was not cleared.
C36_JoinedPlayerIsInRegisteredRoom ==
    \A p \in DOMAIN conn :
        /\ conn[p] # "dead"
        /\ conn[p] = "reading" => (inRegistry /\ ~playersNil /\ p \in Players)

\* C37: whenever room.Current is set, it is a player of room.Players and the
\* player PlayerOrder names at CurrentIndex.
C37_CurrentIsPlayerAtIndex ==
    Current # NoPlayer =>
        /\ Current \in Players
        /\ CurrentIndex < Len(PlayerOrder)
        /\ PlayerOrder[CurrentIndex + 1] = Current

\* C38: with the membership fixed every player of PlayerOrder is the drawer
\* exactly once in a round: the NextRound that goes on within a round (its
\* index does not wrap) names a drawer other than the one whose turn ended.
C38_NextDrawerInRoundIsNew ==
    [][(/\ FixedMembership
        /\ Players = PlayerIds
        /\ Current # NoPlayer
        /\ Len(PlayerOrder) = NumPlayers
        /\ \E h \in RunningTasks : NextRound(h)
        /\ CurrentIndex' # 0)
          => Current' # Current]_vars

\* C39: a started game does not stall: while hasGameStarted is true and at
\* least two players are connected, a room that is not in the lobby has a
\* phase timer waiting or a task at work on it.
C39_StartedGameNeverRests ==
    (/\ HasGameStarted
     /\ Phase # PhaseLobby
     /\ ~crashed
     /\ GetPlayerCount >= MinPlayersToStart)
        => \/ timers # EmptyBag
           \/ tasks # EmptyBag
           \/ \E p \in DOMAIN reader : reader[p] # <<>>
           \/ mu.st # "free"

\* C40: in every reachable state roundNumber is at least 1 and at most
\* maxRounds.
C40_RoundNumberInRange == RoundNumber \in 1..MaxRounds

====
